---- MODULE Spec2Model ----
(***************************************************************************)
(* The tool-call handler of lichess-mcp (src/src/index.ts): the module     *)
(* variable LICHESS_TOKEN, the helper lichessRequest and the cases of the  *)
(* CallToolRequestSchema handler, as a state machine over tool             *)
(* invocations and the HTTP exchanges they perform.                        *)
(*                                                                         *)
(* A JavaScript string is a sequence of tokens.  A name or identifier the  *)
(* caller passes is written character by character; a string literal of   *)
(* the source, and a word that is compared with one, is written as one     *)
(* token, cut at the '?' and '=' of a query string so that these are       *)
(* tokens of their own.  Template literals are concatenations.             *)
(***************************************************************************)
EXTENDS Integers, Sequences, FiniteSets

(* ---------------------------------------------------------------------- *)
(* JavaScript values                                                      *)
(* ---------------------------------------------------------------------- *)
Undefined == [t |-> "undefined"]
Str(s) == [t |-> "string", v |-> s]
Num(n) == [t |-> "number", v |-> n]
Bool(b) == [t |-> "boolean", v |-> b]
NaN == [t |-> "nan"]

Digit(d) ==
    CASE d = 0 -> "0" [] d = 1 -> "1" [] d = 2 -> "2" [] d = 3 -> "3" [] d = 4 -> "4"
      [] d = 5 -> "5" [] d = 6 -> "6" [] d = 7 -> "7" [] d = 8 -> "8" [] d = 9 -> "9"

\* the decimal digits of an integer
RECURSIVE Decimal(_)
Decimal(n) ==
    IF n < 0 THEN <<"-">> \o Decimal(0 - n)
    ELSE IF n < 10 THEN <<Digit(n)>>
    ELSE Decimal(n \div 10) \o <<Digit(n % 10)>>

\* String(x)
ToString(x) ==
    CASE x.t = "undefined" -> <<"u", "n", "d", "e", "f", "i", "n", "e", "d">>
      [] x.t = "string" -> x.v
      [] x.t = "number" -> Decimal(x.v)
      [] x.t = "nan" -> <<"N", "a", "N">>
      [] x.t = "boolean" -> IF x.v THEN <<"t", "r", "u", "e">>
                                   ELSE <<"f", "a", "l", "s", "e">>

\* an object argument, such as clock: { limit, increment }
Obj(fields) == [t |-> "object", v |-> fields]

\* Boolean(x), the truth value that !x and x || y test
Truthy(x) ==
    CASE x.t = "undefined" -> FALSE
      [] x.t = "object" -> TRUE
      [] x.t = "string" -> x.v # <<>>
      [] x.t = "number" -> x.v # 0
      [] x.t = "nan" -> FALSE
      [] x.t = "boolean" -> x.v

\* Number(x); a string converts when it is empty or a single decimal digit
DigitValue(c) ==
    CASE c = "0" -> 0 [] c = "1" -> 1 [] c = "2" -> 2 [] c = "3" -> 3
      [] c = "4" -> 4 [] c = "5" -> 5 [] c = "6" -> 6 [] c = "7" -> 7
      [] c = "8" -> 8 [] c = "9" -> 9 [] OTHER -> -1

ToNumber(x) ==
    CASE x.t = "undefined" -> NaN
      [] x.t = "number" -> x
      [] x.t = "nan" -> NaN
      [] x.t = "boolean" -> IF x.v THEN Num(1) ELSE Num(0)
      [] x.t = "string" ->
            IF x.v = <<>> THEN Num(0)
            ELSE IF Len(x.v) = 1 /\ DigitValue(x.v[1]) >= 0
                 THEN Num(DigitValue(x.v[1]))
                 ELSE NaN

\* x || y
OrElse(x, y) == IF Truthy(x) THEN x ELSE y

\* x ?? y
Coalesce(x, y) == IF x.t = "undefined" THEN y ELSE x

\* a < n for a number a: every comparison with NaN is false
LessThan(a, n) == a.t = "number" /\ a.v < n

\* a > n
GreaterThan(a, n) == a.t = "number" /\ a.v > n

IsSpace(c) == c \in {" ", "\t", "\n"}

RECURSIVE TrimStart(_)
TrimStart(s) ==
    IF s # <<>> /\ IsSpace(Head(s)) THEN TrimStart(Tail(s)) ELSE s

RECURSIVE TrimEnd(_)
TrimEnd(s) ==
    IF s # <<>> /\ IsSpace(s[Len(s)])
    THEN TrimEnd(SubSeq(s, 1, Len(s) - 1))
    ELSE s

\* s.trim()
Trim(s) == TrimEnd(TrimStart(s))

\* s.includes(part)
Includes(s, part) ==
    \E i \in 1..(Len(s) - Len(part) + 1) : SubSeq(s, i, i + Len(part) - 1) = part

\* request.params.arguments?.[k]
Arg(a, k) == IF k \in DOMAIN a THEN a[k] ELSE Undefined

(* ---------------------------------------------------------------------- *)
(* HTTP requests and responses                                            *)
(* ---------------------------------------------------------------------- *)
LICHESS_API_URL == <<"https://lichess.org/api">>

HeaderNames == {"Authorization", "Content-Type"}

NoHeaders == [h \in HeaderNames |-> Undefined]

ContentType(v) == [NoHeaders EXCEPT !["Content-Type"] = Str(<<v>>)]

\* { ...base, ...over }
Spread(base, over) ==
    [h \in HeaderNames |-> IF over[h].t # "undefined" THEN over[h] ELSE base[h]]

\* the RequestInit argument: options = {} when the caller passes none
Options(method, headers, body) ==
    [method |-> method, headers |-> headers, body |-> body]

NoOptions == Options(Undefined, NoHeaders, Undefined)

Post == Options(Str(<<"POST">>), NoHeaders, Undefined)

\* fetch(url, init)
Request(url, init) ==
    [url |-> url, method |-> init.method, headers |-> init.headers, body |-> init.body]

\* what a fetch settles to: a response, or a rejection (network failure)
Pending == [kind |-> "pending"]
Rejected(message) == [kind |-> "rejected", message |-> message]
Response(status, statusText, contentType, body) ==
    [kind |-> "response", status |-> status, statusText |-> statusText,
     contentType |-> contentType, body |-> body]

\* response.ok
Ok(r) == r.status >= 200 /\ r.status <= 299

(* ---------------------------------------------------------------------- *)
(* How a run of the handler ends or suspends                              *)
(* ---------------------------------------------------------------------- *)
NoOutcome == [type |-> "none"]

\* throw new Error(message); kind names the place of the throw in the
\* taxonomy of error kinds
Error(kind, message) == [type |-> "error", kind |-> kind, message |-> message]

\* return { content: [{ type: "text", text }] }
Result(text) == [type |-> "result", content |-> <<[type |-> "text", text |-> text]>>]

NoWrite == [w |-> FALSE]
Write(v) == [w |-> TRUE, v |-> v]

Throw(e, sent) == [pc |-> "done", write |-> NoWrite, http |-> sent, outcome |-> e]
Return(text, sent) ==
    [pc |-> "done", write |-> NoWrite, http |-> sent, outcome |-> Result(text)]
Suspend(sent) ==
    [pc |-> "awaiting", write |-> NoWrite, http |-> sent, outcome |-> NoOutcome]

\* error.message || 'Unknown error'
MessageOrUnknown(m) == IF m = <<>> THEN <<"Unknown error">> ELSE m

\* a variant whose catch block swallows the error
Catch_Swallows(prefix, eff) ==
    IF eff.outcome.type = "error" THEN [eff EXCEPT !.outcome = NoOutcome] ELSE eff

\* try { ... } catch (error) { throw new Error(`${prefix}${error.message || 'Unknown error'}`) }
Catch(prefix, eff) ==
    IF eff.outcome.type = "error"
    THEN [eff EXCEPT !.outcome.message = prefix \o MessageOrUnknown(@)]
    ELSE eff

(* ---------------------------------------------------------------------- *)
(* fetch and lichessRequest                                               *)
(* ---------------------------------------------------------------------- *)
\* await fetch(url, init).  settled is what the fetch settles to: Pending
\* while the caller is suspended at the await.
fetch(url, init, settled) ==
    LET sent == <<Request(url, init)>> IN
    CASE settled.kind = "pending" -> [state |-> "pending", sent |-> sent]
      [] settled.kind = "rejected" ->
           [state |-> "threw", sent |-> sent,
            error |-> Error("TransportError", settled.message)]
      [] settled.kind = "response" ->
           [state |-> "returned", sent |-> sent, response |-> settled]

\* a variant that tests LICHESS_TOKEN === undefined
TokenMissing_UndefinedOnly(tok) == tok.t = "undefined"

\* if (!LICHESS_TOKEN)
TokenMissing(tok) == ~Truthy(tok)

\* a variant that sends the request again when the first answer is not ok
lichessRequest_Retry(tok, endpoint, options, settled) ==
    IF TokenMissing(tok)
    THEN [state |-> "threw", sent |-> <<>>,
          error |-> Error("MissingCredential",
                          <<"Lichess API token not set. Use the set_token tool first.">>)]
    ELSE LET fetchOptions ==
                 [options EXCEPT
                    !.headers =
                       Spread([h \in HeaderNames |->
                                 IF h = "Authorization"
                                 THEN Str(<<"Bearer ">> \o ToString(tok))
                                 ELSE Str(<<"application/json">>)],
                              options.headers)]
             r == fetch(LICHESS_API_URL \o endpoint, fetchOptions, settled)
         IN
         IF r.state = "returned" /\ ~Ok(r.response)
         THEN [state |-> "threw", sent |-> r.sent \o r.sent,
               error |-> Error("UpstreamError",
                               <<"Lichess API error: ">> \o r.response.statusText)]
         ELSE r

\* a variant whose error names the status code, not the reason phrase
lichessRequest_StatusCode(tok, endpoint, options, settled) ==
    IF TokenMissing(tok)
    THEN [state |-> "threw", sent |-> <<>>,
          error |-> Error("MissingCredential",
                          <<"Lichess API token not set. Use the set_token tool first.">>)]
    ELSE LET fetchOptions ==
                 [options EXCEPT
                    !.headers =
                       Spread([h \in HeaderNames |->
                                 IF h = "Authorization"
                                 THEN Str(<<"Bearer ">> \o ToString(tok))
                                 ELSE Str(<<"application/json">>)],
                              options.headers)]
             r == fetch(LICHESS_API_URL \o endpoint, fetchOptions, settled)
         IN
         IF r.state = "returned" /\ ~Ok(r.response)
         THEN [state |-> "threw", sent |-> r.sent,
               error |-> Error("UpstreamError",
                               <<"Lichess API error: ">> \o Decimal(r.response.status))]
         ELSE r

\* tok is LICHESS_TOKEN as read when the call is made
lichessRequest(tok, endpoint, options, settled) ==
    IF TokenMissing(tok)
    THEN [state |-> "threw", sent |-> <<>>,
          error |-> Error("MissingCredential",
                          <<"Lichess API token not set. Use the set_token tool first.">>)]
    ELSE LET fetchOptions ==
                 [options EXCEPT
                    !.headers =
                       Spread([h \in HeaderNames |->
                                 IF h = "Authorization"
                                 THEN Str(<<"Bearer ">> \o ToString(tok))
                                 ELSE Str(<<"application/json">>)],
                              options.headers)]
             r == fetch(LICHESS_API_URL \o endpoint, fetchOptions, settled)
         IN
         IF r.state = "returned" /\ ~Ok(r.response)
         THEN [state |-> "threw", sent |-> r.sent,
               error |-> Error("UpstreamError",
                               <<"Lichess API error: ">> \o r.response.statusText)]
         ELSE r

\* the handler when the awaited call did not return: it rethrows or stays suspended
NotReturned(r) ==
    IF r.state = "threw" THEN Throw(r.error, r.sent) ELSE Suspend(r.sent)

(* ---------------------------------------------------------------------- *)
(* Response bodies                                                        *)
(* ---------------------------------------------------------------------- *)
\* A body is a text: a sequence of tokens in which a line break is the token
\* "\n" and a JSON document is one token.
JsonDocuments == {"{a:1}", "{a:2}"}

\* text.split('\n')
RECURSIVE Split(_)
Split(text) ==
    IF \A i \in 1..Len(text) : text[i] # "\n" THEN <<text>>
    ELSE LET i == CHOOSE i \in 1..Len(text) :
                     text[i] = "\n" /\ \A j \in 1..(i - 1) : text[j] # "\n"
         IN <<SubSeq(text, 1, i - 1)>> \o Split(SubSeq(text, i + 1, Len(text)))

\* lines.filter(line => line.trim())
NonBlank(lines) == SelectSeq(lines, LAMBDA line : Trim(line) # <<>>)

\* JSON.parse(text): white space around the document is allowed
JSONparse(text) ==
    IF Len(Trim(text)) = 1 /\ Trim(text)[1] \in JsonDocuments
    THEN [threw |-> FALSE, value |-> Trim(text)[1]]
    ELSE [threw |-> TRUE,
          error |-> Error("ParseError",
                          IF Trim(text) = <<>> THEN <<"Unexpected end of JSON input">>
                          ELSE <<"Unexpected token in JSON">>)]

\* response.json(): the whole body is one JSON document
json(response) == JSONparse(response.body)

\* a variant that trims the text
responseText_Trimmed(response) == Trim(response.body)

\* response.text()
responseText(response) == response.body

\* contentType?.includes(kind)
ContentTypeIncludes(response, kind) ==
    response.contentType.t = "string" /\ Includes(response.contentType.v, <<kind>>)

\* a variant that parses every line, the blank ones too
ParseLines_KeepsBlank(text) ==
    LET lines == Split(text)
        bad == SelectSeq(lines, LAMBDA line : JSONparse(line).threw)
    IN
    IF bad # <<>>
    THEN [threw |-> TRUE, error |-> JSONparse(bad[1]).error]
    ELSE [threw |-> FALSE, value |-> [i \in 1..Len(lines) |-> JSONparse(lines[i]).value]]

\* a variant that leaves out the lines JSON.parse rejects
ParseLines_SkipsBad(text) ==
    LET lines == SelectSeq(NonBlank(Split(text)), LAMBDA line : ~JSONparse(line).threw) IN
    [threw |-> FALSE, value |-> [i \in 1..Len(lines) |-> JSONparse(lines[i]).value]]

\* text.split('\n').filter(line => line.trim()).map(line => JSON.parse(line))
ParseLines(text) ==
    LET lines == NonBlank(Split(text))
        bad == SelectSeq(lines, LAMBDA line : JSONparse(line).threw)
    IN
    IF bad # <<>>
    THEN [threw |-> TRUE, error |-> JSONparse(bad[1]).error]
    ELSE [threw |-> FALSE, value |-> [i \in 1..Len(lines) |-> JSONparse(lines[i]).value]]

\* JSON.stringify(value, null, 2)
JSONstringify(value) == <<"JSON.stringify(", value, ", null, 2)">>

\* const x = await response.json(); return { content: [{ type: "text", text: JSON.stringify(x, null, 2) }] }
ReturnJson(r) ==
    LET parsed == json(r.response) IN
    IF parsed.threw THEN Throw(parsed.error, r.sent)
    ELSE Return(JSONstringify(parsed.value), r.sent)

(* ---------------------------------------------------------------------- *)
(* URLSearchParams                                                        *)
(* ---------------------------------------------------------------------- *)
\* application/x-www-form-urlencoded serialisation of one string: a space
\* becomes '+' (the other characters used here are left as they are)
FormEncode(s) == [i \in 1..Len(s) |-> IF s[i] = " " THEN "+" ELSE s[i]]

\* params.toString() for params = the sequence of appended <<name, value>>
RECURSIVE ParamsToString(_)
ParamsToString(params) ==
    IF params = <<>> THEN <<>>
    ELSE FormEncode(params[1][1]) \o <<"=">> \o FormEncode(params[1][2])
         \o (IF Len(params) > 1 THEN <<"&">> \o ParamsToString(Tail(params)) ELSE <<>>)

\* if (cond) params.append(name, value)
AppendIf(cond, name, value) == IF cond THEN <<<<name, value>>>> ELSE <<>>

\* s.split(',').length
SplitLength(s) == Len(SelectSeq(s, LAMBDA c : c = ",")) + 1

(* ---------------------------------------------------------------------- *)
(* The cases of the CallToolRequestSchema handler.  Each takes tok, the    *)
(* value of LICHESS_TOKEN when the handler starts, the argument bag a, and *)
(* what its fetch settles to; it yields how the run ends or suspends.      *)
(* ---------------------------------------------------------------------- *)
\* a variant that keeps a token that is already stored
set_token_KeepsFirst(tok, a, settled) ==
    LET token == ToString(Arg(a, "token")) IN
    IF token = <<>>
    THEN Throw(Error("ValidationError", <<"Token is required">>), <<>>)
    ELSE [Return(<<"Lichess API token has been set">>, <<>>)
            EXCEPT !.write = Write(IF Truthy(tok) THEN tok ELSE Str(token))]

set_token(tok, a, settled) ==
    LET token == ToString(Arg(a, "token")) IN
    IF token = <<>>
    THEN Throw(Error("ValidationError", <<"Token is required">>), <<>>)
    ELSE [Return(<<"Lichess API token has been set">>, <<>>)
            EXCEPT !.write = Write(Str(token))]

\* a variant that drops the stored token when the call fails
get_my_profile_Forgets(tok, a, settled) ==
    LET r == lichessRequest(tok, <<"/account">>, NoOptions, settled) IN
    IF r.state = "threw" THEN [Throw(r.error, r.sent) EXCEPT !.write = Write(Undefined)]
    ELSE IF r.state # "returned" THEN NotReturned(r) ELSE ReturnJson(r)

get_my_profile(tok, a, settled) ==
    LET r == lichessRequest(tok, <<"/account">>, NoOptions, settled) IN
    IF r.state # "returned" THEN NotReturned(r) ELSE ReturnJson(r)

get_user_profile(tok, a, settled) ==
    LET username == ToString(Arg(a, "username"))
        trophies == Truthy(Arg(a, "trophies"))
        r == lichessRequest(tok,
                            <<"/user/">> \o username
                               \o (IF trophies THEN <<"?", "trophies", "=", "true">> ELSE <<>>),
                            NoOptions, settled)
    IN
    IF r.state # "returned" THEN NotReturned(r) ELSE ReturnJson(r)

\* a variant that sends the tokens through lichessRequest
test_tokens_Authenticated(tok, a, settled) ==
    LET tokens == ToString(Arg(a, "tokens")) IN
    IF tokens = <<>>
    THEN Throw(Error("ValidationError", <<"Tokens parameter is required">>), <<>>)
    ELSE IF SplitLength(tokens) > 1000
    THEN Throw(Error("ValidationError", <<"Maximum of 1000 tokens allowed">>), <<>>)
    ELSE LET r == lichessRequest(tok, <<"/token/test">>,
                                 Options(Str(<<"POST">>), ContentType("text/plain"),
                                         Str(tokens)),
                                 settled)
         IN
         IF r.state # "returned" THEN NotReturned(r) ELSE ReturnJson(r)

test_tokens(tok, a, settled) ==
    LET tokens == ToString(Arg(a, "tokens")) IN
    IF tokens = <<>>
    THEN Throw(Error("ValidationError", <<"Tokens parameter is required">>), <<>>)
    ELSE IF SplitLength(tokens) > 1000
    THEN Throw(Error("ValidationError", <<"Maximum of 1000 tokens allowed">>), <<>>)
    ELSE LET r == fetch(LICHESS_API_URL \o <<"/token/test">>,
                        Options(Str(<<"POST">>), ContentType("text/plain"), Str(tokens)),
                        settled)
         IN
         IF r.state # "returned" THEN NotReturned(r)
         ELSE IF ~Ok(r.response)
         THEN Throw(Error("UpstreamError",
                          <<"Lichess API error: ">> \o r.response.statusText), r.sent)
         ELSE ReturnJson(r)

\* a variant that clears the token before it looks at the response
revoke_token_response_ClearsFirst(r) ==
    IF ~Ok(r.response)
    THEN [Throw(Error("UpstreamError",
                      <<"Failed to revoke token: ">> \o r.response.statusText), r.sent)
            EXCEPT !.write = Write(Undefined)]
    ELSE [Return(<<"Access token has been successfully revoked and cleared">>, r.sent)
            EXCEPT !.write = Write(Undefined)]

\* a variant that never clears the token
revoke_token_response_Keeps(r) ==
    IF ~Ok(r.response)
    THEN Throw(Error("UpstreamError",
                     <<"Failed to revoke token: ">> \o r.response.statusText), r.sent)
    ELSE Return(<<"Access token has been successfully revoked and cleared">>, r.sent)

\* revoke_token once its DELETE has returned a response
revoke_token_response(r) ==
    IF ~Ok(r.response)
    THEN Throw(Error("UpstreamError",
                     <<"Failed to revoke token: ">> \o r.response.statusText), r.sent)
    ELSE [Return(<<"Access token has been successfully revoked and cleared">>, r.sent)
            EXCEPT !.write = Write(Undefined)]

revoke_token(tok, a, settled) ==
    IF ~Truthy(tok)
    THEN Throw(Error("MissingCredential",
                     <<"No token set to revoke. Please set a token first using set_token.">>),
               <<>>)
    ELSE Catch(<<"Failed to revoke token: ">>,
           LET r == fetch(LICHESS_API_URL \o <<"/token">>,
                          Options(Str(<<"DELETE">>),
                                  [NoHeaders EXCEPT
                                     !["Authorization"] = Str(<<"Bearer ">> \o ToString(tok))],
                                  Undefined),
                          settled)
           IN
           IF r.state # "returned" THEN NotReturned(r) ELSE revoke_token_response(r))

add_user_note(tok, a, settled) ==
    LET username == ToString(Arg(a, "username"))
        text == ToString(Arg(a, "text"))
    IN
    IF username = <<>>
    THEN Throw(Error("ValidationError", <<"Username parameter is required">>), <<>>)
    ELSE IF text = <<>>
    THEN Throw(Error("ValidationError", <<"Text parameter is required">>), <<>>)
    ELSE Catch(<<"Failed to add note: ">>,
           LET r == lichessRequest(tok, <<"/user/">> \o username \o <<"/note">>,
                                   Options(Str(<<"POST">>),
                                           ContentType("application/x-www-form-urlencoded"),
                                           Str(ParamsToString(<<<<<<"text">>, text>>>>))),
                                   settled)
           IN
           IF r.state # "returned" THEN NotReturned(r)
           ELSE IF ~Ok(r.response)
           THEN IF r.response.status = 404
                THEN Throw(Error("NotFound",
                                 <<"User ">> \o username \o <<" not found">>), r.sent)
                ELSE Throw(Error("UpstreamError",
                                 <<"Failed to add note: ">> \o r.response.statusText), r.sent)
           ELSE Return(<<"Note successfully added for user ">> \o username, r.sent))

\* a variant that checks the username after the call has returned
follow_user_ChecksLate(tok, a, settled) ==
    LET username == ToString(Arg(a, "username"))
        r == lichessRequest(tok, <<"/rel/follow/">> \o username, Post, settled)
    IN
    IF r.state = "pending" THEN Suspend(r.sent)
    ELSE IF Trim(username) = <<>>
    THEN Throw(Error("ValidationError", <<"Username parameter is required">>), r.sent)
    ELSE Catch(<<"Failed to follow user: ">>,
           IF r.state # "returned" THEN NotReturned(r)
           ELSE Return(<<"Successfully following ">> \o username, r.sent))

follow_user(tok, a, settled) ==
    LET username == ToString(Arg(a, "username")) IN
    IF username = <<>>
    THEN Throw(Error("ValidationError", <<"Username parameter is required">>), <<>>)
    ELSE Catch(<<"Failed to follow user: ">>,
           LET r == lichessRequest(tok, <<"/rel/follow/">> \o username, Post, settled) IN
           IF r.state # "returned" THEN NotReturned(r)
           ELSE IF ~Ok(r.response)
           THEN IF r.response.status = 404
                THEN Throw(Error("NotFound",
                                 <<"User ">> \o username \o <<" not found">>), r.sent)
                ELSE IF r.response.status = 400
                THEN Throw(Error("InvalidRequest",
                                 <<"Cannot follow ">> \o username
                                    \o <<": invalid request (you may be trying to follow yourself)">>),
                           r.sent)
                ELSE Throw(Error("UpstreamError",
                                 <<"Failed to follow user: ">> \o r.response.statusText),
                           r.sent)
           ELSE Return(<<"Successfully following ">> \o username, r.sent))

get_users_status(tok, a, settled) ==
    LET ids == ToString(Arg(a, "ids")) IN
    IF ids = <<>>
    THEN Throw(Error("ValidationError", <<"IDs parameter is required">>), <<>>)
    ELSE IF SplitLength(ids) > 100
    THEN Throw(Error("ValidationError", <<"Maximum of 100 user IDs allowed">>), <<>>)
    ELSE Catch(<<"Failed to get user statuses: ">>,
           LET params == AppendIf(Truthy(Arg(a, "withSignal")), <<"withSignal">>, <<"true">>)
                         \o AppendIf(Truthy(Arg(a, "withGameIds")), <<"withGameIds">>, <<"true">>)
                         \o AppendIf(Truthy(Arg(a, "withGameMetas")),
                                     <<"withGameMetas">>, <<"true">>)
               r == lichessRequest(tok,
                                   <<"/users/status", "?", "ids", "=">> \o ids \o <<"&">>
                                      \o ParamsToString(params),
                                   NoOptions, settled)
           IN
           IF r.state # "returned" THEN NotReturned(r)
           ELSE IF ~Ok(r.response)
           THEN Throw(Error("UpstreamError",
                            <<"Failed to get user statuses: ">> \o r.response.statusText),
                      r.sent)
           ELSE ReturnJson(r))

get_user_public_data(tok, a, settled) ==
    LET username == ToString(Arg(a, "username")) IN
    IF username = <<>>
    THEN Throw(Error("ValidationError", <<"Username parameter is required">>), <<>>)
    ELSE IF Trim(username) = <<>>
    THEN Throw(Error("ValidationError", <<"Username cannot be empty">>), <<>>)
    ELSE Catch(<<"Failed to get user data: ">>,
           LET params == AppendIf(Truthy(Arg(a, "withTrophies")), <<"trophies">>, <<"true">>)
               r == lichessRequest(tok,
                                   <<"/user/">> \o username \o <<"?">>
                                      \o ParamsToString(params),
                                   NoOptions, settled)
           IN
           IF r.state # "returned" THEN NotReturned(r)
           ELSE IF ~Ok(r.response)
           THEN IF r.response.status = 404
                THEN Throw(Error("NotFound",
                                 <<"User ">> \o username \o <<" not found">>), r.sent)
                ELSE Throw(Error("UpstreamError",
                                 <<"Failed to get user data: ">> \o r.response.statusText),
                           r.sent)
           ELSE ReturnJson(r))

make_board_move(tok, a, settled) ==
    LET gameId == ToString(Arg(a, "gameId"))
        move == ToString(Arg(a, "move"))
        offeringDraw == Truthy(Arg(a, "offeringDraw"))
    IN
    IF gameId = <<>>
    THEN Throw(Error("ValidationError", <<"gameId parameter is required">>), <<>>)
    ELSE IF Trim(gameId) = <<>>
    THEN Throw(Error("ValidationError", <<"gameId cannot be empty">>), <<>>)
    ELSE IF move = <<>>
    THEN Throw(Error("ValidationError", <<"move parameter is required">>), <<>>)
    ELSE IF Trim(move) = <<>>
    THEN Throw(Error("ValidationError", <<"move cannot be empty">>), <<>>)
    ELSE Catch(<<"Failed to make move: ">>,
           LET params == AppendIf(offeringDraw, <<"offeringDraw">>, <<"true">>)
               r == lichessRequest(tok,
                                   <<"/board/game/">> \o gameId \o <<"/move/">> \o move
                                      \o <<"?">> \o ParamsToString(params),
                                   Post, settled)
           IN
           IF r.state # "returned" THEN NotReturned(r)
           ELSE IF ~Ok(r.response)
           THEN IF r.response.status = 404
                THEN Throw(Error("NotFound",
                                 <<"Game ">> \o gameId \o <<" not found">>), r.sent)
                ELSE IF r.response.status = 400
                THEN Throw(Error("InvalidRequest", <<"Invalid move">>), r.sent)
                ELSE Throw(Error("UpstreamError",
                                 <<"Failed to make move: ">> \o r.response.statusText),
                           r.sent)
           ELSE Return(<<"Move ">> \o move \o <<" made in game ">> \o gameId
                          \o (IF offeringDraw THEN <<" with draw offer">> ELSE <<>>),
                       r.sent))

\* the stringParams loop of export_user_games: the first value it rejects
StringParamError(param, value) ==
    CASE param = "color" /\ value \notin {<<"white">>, <<"black">>} ->
            <<"Color must be either \"white\" or \"black\"">>
      [] param = "sort" /\ value \notin {<<"dateAsc">>, <<"dateDesc">>} ->
            <<"Sort must be either \"dateAsc\" or \"dateDesc\"">>
      [] param = "perfType"
         /\ value \notin {<<"ultraBullet">>, <<"bullet">>, <<"blitz">>, <<"rapid">>,
                          <<"classical">>, <<"correspondence">>, <<"chess960">>,
                          <<"crazyhouse">>, <<"antichess">>, <<"atomic">>, <<"horde">>,
                          <<"kingOfTheHill">>, <<"racingKings">>, <<"threeCheck">>} ->
            <<"Invalid perfType value">>
      [] OTHER -> <<>>

\* for (const param of names) if (arguments?.[param] !== undefined) params.append(param, String(...))
RECURSIVE BooleanParams(_, _)
BooleanParams(a, names) ==
    IF names = <<>> THEN <<>>
    ELSE AppendIf(Arg(a, names[1]).t # "undefined", <<names[1]>>, ToString(Arg(a, names[1])))
         \o BooleanParams(a, Tail(names))

\* The since and until arguments are left out: their bound, 1356998400070,
\* does not fit the 32-bit integers of TLC, and the callers enumerated here
\* omit both.
export_user_games(tok, a, settled) ==
    LET username == ToString(Arg(a, "username"))
        max == ToNumber(Arg(a, "max"))
        stringParams == <<"vs", "perfType", "color", "players", "sort">>
        value(param) == ToString(OrElse(Arg(a, param), Str(<<>>)))
        given == SelectSeq(stringParams, LAMBDA param : value(param) # <<>>)
        rejected == SelectSeq(given, LAMBDA param : StringParamError(param, value(param)) # <<>>)
        params == AppendIf(Arg(a, "max").t # "undefined", <<"max">>, ToString(max))
                  \o [i \in 1..Len(given) |-> <<<<given[i]>>, value(given[i])>>]
                  \o BooleanParams(a, <<"rated", "analysed", "moves", "tags", "clocks",
                                        "evals", "accuracy", "opening", "ongoing",
                                        "finished", "literate", "lastFen">>)
    IN
    IF username = <<>>
    THEN Throw(Error("ValidationError", <<"Username parameter is required">>), <<>>)
    ELSE IF Trim(username) = <<>>
    THEN Throw(Error("ValidationError", <<"Username cannot be empty">>), <<>>)
    ELSE IF Arg(a, "max").t # "undefined" /\ LessThan(max, 1)
    THEN Throw(Error("ValidationError", <<"Max number of games must be at least 1">>), <<>>)
    ELSE IF rejected # <<>>
    THEN Throw(Error("ValidationError",
                     StringParamError(rejected[1], value(rejected[1]))), <<>>)
    ELSE Catch(<<"Failed to export games: ">>,
           LET r == lichessRequest(tok,
                                   <<"/games/user/">> \o username \o <<"?">>
                                      \o ParamsToString(params),
                                   NoOptions, settled)
           IN
           IF r.state # "returned" THEN NotReturned(r)
           ELSE IF ~Ok(r.response)
           THEN IF r.response.status = 404
                THEN Throw(Error("NotFound",
                                 <<"User ">> \o username \o <<" not found">>), r.sent)
                ELSE Throw(Error("UpstreamError",
                                 <<"Failed to export games: ">> \o r.response.statusText),
                           r.sent)
           ELSE IF ContentTypeIncludes(r.response, "application/x-chess-pgn")
           THEN Return(responseText(r.response), r.sent)
           ELSE IF ContentTypeIncludes(r.response, "application/x-ndjson")
           THEN LET content == ParseLines(responseText(r.response)) IN
                IF content.threw THEN Throw(content.error, r.sent)
                ELSE Return(JSONstringify(content.value), r.sent)
           ELSE Throw(Error("ParseError", <<"Unexpected response format">>), r.sent))

\* JSON.stringify(body) of a request
Json(body) == [t |-> "json", v |-> body]

\* if (arguments?.[k]) body[k] = convert(arguments[k])
Optional(v, converted) == IF Truthy(v) THEN converted ELSE Undefined

create_arena(tok, a, settled) ==
    IF ~Truthy(Arg(a, "name"))
    THEN Throw(Error("ValidationError", <<"name parameter is required">>), <<>>)
    ELSE Catch(<<"Failed to create tournament: ">>,
           LET body ==
                 [name |-> Str(ToString(Arg(a, "name"))),
                  clockTime |-> OrElse(ToNumber(Arg(a, "clockTime")), Num(3)),
                  clockIncrement |-> OrElse(ToNumber(Arg(a, "clockIncrement")), Num(2)),
                  minutes |-> OrElse(ToNumber(Arg(a, "minutes")), Num(45)),
                  waitMinutes |-> OrElse(ToNumber(Arg(a, "waitMinutes")), Num(5)),
                  variant |-> Str(ToString(OrElse(Arg(a, "variant"), Str(<<"standard">>)))),
                  rated |-> Bool(Truthy(Coalesce(Arg(a, "rated"), Bool(TRUE)))),
                  berserkable |-> Bool(Truthy(Coalesce(Arg(a, "berserkable"), Bool(TRUE)))),
                  streakable |-> Bool(Truthy(Coalesce(Arg(a, "streakable"), Bool(TRUE)))),
                  hasChat |-> Bool(Truthy(Coalesce(Arg(a, "hasChat"), Bool(TRUE)))),
                  startDate |-> Optional(Arg(a, "startDate"), ToNumber(Arg(a, "startDate"))),
                  position |-> Optional(Arg(a, "position"), Str(ToString(Arg(a, "position")))),
                  description |-> Optional(Arg(a, "description"),
                                           Str(ToString(Arg(a, "description")))),
                  conditions |-> Optional(Arg(a, "conditions"), Arg(a, "conditions"))]
               validVariants ==
                 {<<"standard">>, <<"chess960">>, <<"crazyhouse">>, <<"antichess">>,
                  <<"atomic">>, <<"horde">>, <<"kingOfTheHill">>, <<"racingKings">>,
                  <<"threeCheck">>}
           IN
           IF LessThan(body.clockTime, 0)
           THEN Throw(Error("ValidationError", <<"clockTime must be positive">>), <<>>)
           ELSE IF LessThan(body.clockIncrement, 0)
           THEN Throw(Error("ValidationError", <<"clockIncrement must be positive">>), <<>>)
           ELSE IF LessThan(body.minutes, 1)
           THEN Throw(Error("ValidationError", <<"minutes must be at least 1">>), <<>>)
           ELSE IF LessThan(body.waitMinutes, 1)
           THEN Throw(Error("ValidationError", <<"waitMinutes must be at least 1">>), <<>>)
           ELSE IF body.variant.v \notin validVariants
           THEN Throw(Error("ValidationError",
                            <<"Invalid variant. Must be one of: ">>
                               \o <<"standard, chess960, crazyhouse, antichess, atomic, horde, kingOfTheHill, racingKings, threeCheck">>),
                      <<>>)
           ELSE IF Truthy(Arg(a, "startDate")) /\ body.startDate.t = "nan"
           THEN Throw(Error("ValidationError", <<"startDate must be a valid timestamp">>),
                      <<>>)
           ELSE LET r == lichessRequest(tok, <<"/tournament">>,
                                        Options(Str(<<"POST">>),
                                                ContentType("application/json"),
                                                Json(body)),
                                        settled)
                IN
                IF r.state # "returned" THEN NotReturned(r)
                ELSE IF ~Ok(r.response)
                THEN IF r.response.status = 400
                     THEN Throw(Error("InvalidRequest", <<"Invalid tournament parameters">>),
                                r.sent)
                     ELSE Throw(Error("UpstreamError",
                                      <<"Failed to create tournament: ">>
                                         \o r.response.statusText), r.sent)
                ELSE ReturnJson(r))

\* clock.limit, clock.increment
Field(object, k) == IF object.t = "object" THEN object.v[k] ELSE Undefined

create_swiss(tok, a, settled) ==
    LET clock == Arg(a, "clock") IN
    IF ~Truthy(Arg(a, "name"))
    THEN Throw(Error("ValidationError", <<"name parameter is required">>), <<>>)
    ELSE IF ~Truthy(Arg(a, "teamId"))
    THEN Throw(Error("ValidationError", <<"teamId parameter is required">>), <<>>)
    ELSE IF ~Truthy(clock)
    THEN Throw(Error("ValidationError", <<"clock parameter is required">>), <<>>)
    ELSE IF ~Truthy(Field(clock, "limit")) \/ ~Truthy(Field(clock, "increment"))
    THEN Throw(Error("ValidationError", <<"clock must specify both limit and increment">>),
               <<>>)
    ELSE Catch(<<"Failed to create Swiss tournament: ">>,
           LET body ==
                 [name |-> Str(ToString(Arg(a, "name"))),
                  teamId |-> Str(ToString(Arg(a, "teamId"))),
                  clock |-> [limit |-> ToNumber(Field(clock, "limit")),
                             increment |-> ToNumber(Field(clock, "increment"))],
                  nbRounds |-> OrElse(ToNumber(Arg(a, "nbRounds")), Num(7)),
                  variant |-> Str(ToString(OrElse(Arg(a, "variant"), Str(<<"standard">>)))),
                  rated |-> Bool(Truthy(Coalesce(Arg(a, "rated"), Bool(TRUE)))),
                  roundInterval |-> OrElse(ToNumber(Arg(a, "roundInterval")), Num(300)),
                  description |-> Optional(Arg(a, "description"),
                                           Str(ToString(Arg(a, "description"))))]
               validVariants ==
                 {<<"standard">>, <<"chess960">>, <<"crazyhouse">>, <<"antichess">>,
                  <<"atomic">>, <<"horde">>, <<"kingOfTheHill">>, <<"racingKings">>,
                  <<"threeCheck">>}
           IN
           IF LessThan(body.nbRounds, 1)
           THEN Throw(Error("ValidationError", <<"nbRounds must be at least 1">>), <<>>)
           ELSE IF LessThan(body.roundInterval, 1)
           THEN Throw(Error("ValidationError",
                            <<"roundInterval must be at least 1 second">>), <<>>)
           ELSE IF LessThan(body.clock.limit, 0)
           THEN Throw(Error("ValidationError", <<"clock limit must be positive">>), <<>>)
           ELSE IF LessThan(body.clock.increment, 0)
           THEN Throw(Error("ValidationError", <<"clock increment must be positive">>),
                      <<>>)
           ELSE IF body.variant.v \notin validVariants
           THEN Throw(Error("ValidationError",
                            <<"Invalid variant. Must be one of: ">>
                               \o <<"standard, chess960, crazyhouse, antichess, atomic, horde, kingOfTheHill, racingKings, threeCheck">>),
                      <<>>)
           ELSE LET r == lichessRequest(tok, <<"/swiss/new">>,
                                        Options(Str(<<"POST">>),
                                                ContentType("application/json"),
                                                Json(body)),
                                        settled)
                IN
                IF r.state # "returned" THEN NotReturned(r)
                ELSE IF ~Ok(r.response)
                THEN IF r.response.status = 404
                     THEN Throw(Error("NotFound", <<"Team not found">>), r.sent)
                     ELSE IF r.response.status = 403
                     THEN Throw(Error("Forbidden",
                                      <<"You are not allowed to create tournaments for this team">>),
                                r.sent)
                     ELSE Throw(Error("UpstreamError",
                                      <<"Failed to create Swiss tournament: ">>
                                         \o r.response.statusText), r.sent)
                ELSE ReturnJson(r))

join_team(tok, a, settled) ==
    LET teamId == ToString(Arg(a, "teamId"))
        message == ToString(OrElse(Arg(a, "message"), Str(<<>>)))
        params == AppendIf(Trim(message) # <<>>, <<"message">>, message)
    IN
    IF teamId = <<>>
    THEN Throw(Error("ValidationError", <<"teamId parameter is required">>), <<>>)
    ELSE IF Trim(teamId) = <<>>
    THEN Throw(Error("ValidationError", <<"teamId cannot be empty">>), <<>>)
    ELSE Catch(<<"Failed to join team: ">>,
           LET r == lichessRequest(tok, <<"/team/">> \o teamId \o <<"/join">>,
                                   Options(Str(<<"POST">>),
                                           ContentType("application/x-www-form-urlencoded"),
                                           Str(ParamsToString(params))),
                                   settled)
           IN
           IF r.state # "returned" THEN NotReturned(r)
           ELSE IF ~Ok(r.response)
           THEN IF r.response.status = 404
                THEN Throw(Error("NotFound",
                                 <<"Team ">> \o teamId \o <<" not found">>), r.sent)
                ELSE IF r.response.status = 403
                THEN Throw(Error("Forbidden", <<"You are not allowed to join this team">>),
                           r.sent)
                ELSE IF r.response.status = 409
                THEN Throw(Error("Conflict", <<"You are already a member of this team">>),
                           r.sent)
                ELSE Throw(Error("UpstreamError",
                                 <<"Failed to join team: ">> \o r.response.statusText),
                           r.sent)
           ELSE Return(<<"Successfully joined team ">> \o teamId, r.sent))

get_user_performance(tok, a, settled) ==
    LET username == ToString(Arg(a, "username"))
        perf == ToString(Arg(a, "perf"))
        r == lichessRequest(tok, <<"/user/">> \o username \o <<"/perf/">> \o perf,
                            NoOptions, settled)
    IN
    IF r.state # "returned" THEN NotReturned(r) ELSE ReturnJson(r)

\* text.split('\n') ... .map(line => JSON.parse(line)), then
\* return { content: [{ type: "text", text: JSON.stringify(records, null, 2) }] }
ReturnLines(r) ==
    LET content == ParseLines(responseText(r.response)) IN
    IF content.threw THEN Throw(content.error, r.sent)
    ELSE Return(JSONstringify(content.value), r.sent)

get_following(tok, a, settled) ==
    Catch(<<"Failed to get following list: ">>,
      LET r == lichessRequest(tok, <<"/rel/following">>, NoOptions, settled) IN
      IF r.state # "returned" THEN NotReturned(r)
      ELSE IF ~Ok(r.response)
      THEN Throw(Error("UpstreamError",
                       <<"Failed to get following list: ">> \o r.response.statusText),
                 r.sent)
      ELSE ReturnLines(r))

export_games_by_ids(tok, a, settled) ==
    LET ids == ToString(Arg(a, "ids"))
        \* built and never passed to lichessRequest
        params == BooleanParams(a, <<"moves", "pgnInJson", "tags", "clocks", "evals",
                                     "opening">>)
    IN
    IF ids = <<>>
    THEN Throw(Error("ValidationError", <<"Game IDs parameter is required">>), <<>>)
    ELSE IF SplitLength(ids) > 300
    THEN Throw(Error("ValidationError", <<"Maximum of 300 game IDs allowed">>), <<>>)
    ELSE Catch(<<"Failed to export games: ">>,
           LET r == lichessRequest(tok, <<"/games/export/_ids">>,
                                   Options(Str(<<"POST">>), ContentType("text/plain"),
                                           Str(ids)),
                                   settled)
           IN
           IF r.state # "returned" THEN NotReturned(r)
           ELSE IF ~Ok(r.response)
           THEN Throw(Error("UpstreamError",
                            <<"Failed to export games: ">> \o r.response.statusText),
                      r.sent)
           ELSE IF ContentTypeIncludes(r.response, "application/x-chess-pgn")
           THEN Return(responseText(r.response), r.sent)
           ELSE IF ContentTypeIncludes(r.response, "application/x-ndjson")
           THEN ReturnLines(r)
           ELSE ReturnJson(r))

get_swiss_games(tok, a, settled) ==
    LET swissId == ToString(Arg(a, "swissId")) IN
    IF swissId = <<>>
    THEN Throw(Error("ValidationError", <<"swissId parameter is required">>), <<>>)
    ELSE IF Trim(swissId) = <<>>
    THEN Throw(Error("ValidationError", <<"swissId cannot be empty">>), <<>>)
    ELSE Catch(<<"Failed to get Swiss tournament games: ">>,
           LET params == AppendIf(Truthy(Arg(a, "player")), <<"player">>,
                                  ToString(Arg(a, "player")))
                         \o BooleanParams(a, <<"moves", "pgnInJson", "tags", "clocks",
                                                "evals", "opening">>)
               r == lichessRequest(tok,
                                   <<"/swiss/">> \o swissId \o <<"/games", "?">>
                                      \o ParamsToString(params),
                                   NoOptions, settled)
           IN
           IF r.state # "returned" THEN NotReturned(r)
           ELSE IF ~Ok(r.response)
           THEN IF r.response.status = 404
                THEN Throw(Error("NotFound",
                                 <<"Swiss tournament ">> \o swissId \o <<" not found">>),
                           r.sent)
                ELSE Throw(Error("UpstreamError",
                                 <<"Failed to get Swiss tournament games: ">>
                                    \o r.response.statusText), r.sent)
           ELSE ReturnLines(r))

\* a variant that only rejects the empty identifier
WrongLength_EmptyOnly(id) == id = <<>>

\* !id || id.length !== 8
WrongLength(id) == id = <<>> \/ Len(id) # 8

export_game(tok, a, settled) ==
    LET gameId == ToString(Arg(a, "gameId"))
        params == BooleanParams(a, <<"moves", "pgnInJson", "tags", "clocks", "evals",
                                     "accuracy", "opening", "literate">>)
    IN
    IF WrongLength(gameId)
    THEN Throw(Error("ValidationError", <<"Game ID must be exactly 8 characters long">>),
               <<>>)
    ELSE Catch(<<"Failed to export game: ">>,
           LET r == lichessRequest(tok,
                                   <<"/game/export/">> \o gameId \o <<"?">>
                                      \o ParamsToString(params),
                                   NoOptions, settled)
           IN
           IF r.state # "returned" THEN NotReturned(r)
           ELSE IF ~Ok(r.response)
           THEN IF r.response.status = 404
                THEN Throw(Error("NotFound",
                                 <<"Game ">> \o gameId \o <<" not found">>), r.sent)
                ELSE Throw(Error("UpstreamError",
                                 <<"Failed to export game: ">> \o r.response.statusText),
                           r.sent)
           ELSE IF ContentTypeIncludes(r.response, "application/x-chess-pgn")
           THEN Return(responseText(r.response), r.sent)
           ELSE ReturnJson(r))

get_tv_game(tok, a, settled) ==
    LET channel == ToString(OrElse(Arg(a, "channel"), Str(<<>>)))
        validChannels ==
          {<<"bot">>, <<"blitz">>, <<"racingKings">>, <<"ultraBullet">>, <<"bullet">>,
           <<"classical">>, <<"threeCheck">>, <<"antichess">>, <<"computer">>,
           <<"horde">>, <<"rapid">>, <<"atomic">>, <<"crazyhouse">>, <<"chess960">>,
           <<"kingOfTheHill">>, <<"best">>}
    IN
    IF channel # <<>> /\ channel \notin validChannels
    THEN Throw(Error("ValidationError",
                     <<"Invalid channel. Must be one of: ">>
                        \o <<"bot, blitz, racingKings, ultraBullet, bullet, classical, threeCheck, antichess, computer, horde, rapid, atomic, crazyhouse, chess960, kingOfTheHill, best">>),
               <<>>)
    ELSE Catch(<<"Failed to get TV game: ">>,
           LET path == IF channel # <<>> THEN <<"/tv/">> \o channel ELSE <<"/tv">>
               r == lichessRequest(tok, path, NoOptions, settled)
           IN
           IF r.state # "returned" THEN NotReturned(r)
           ELSE IF ~Ok(r.response)
           THEN Throw(Error("UpstreamError",
                            <<"Failed to get TV game: ">> \o r.response.statusText),
                      r.sent)
           ELSE IF ContentTypeIncludes(r.response, "application/x-chess-pgn")
           THEN Return(responseText(r.response), r.sent)
           ELSE ReturnJson(r))

export_study_chapter(tok, a, settled) ==
    LET studyId == ToString(Arg(a, "studyId"))
        chapterId == ToString(Arg(a, "chapterId"))
        params == BooleanParams(a, <<"clocks", "comments", "variations", "source",
                                     "orientation">>)
    IN
    IF WrongLength(studyId)
    THEN Throw(Error("ValidationError", <<"Study ID must be exactly 8 characters long">>),
               <<>>)
    ELSE IF WrongLength(chapterId)
    THEN Throw(Error("ValidationError", <<"Chapter ID must be exactly 8 characters long">>),
               <<>>)
    ELSE Catch(<<"Failed to export study chapter: ">>,
           LET r == lichessRequest(tok,
                                   <<"/study/">> \o studyId \o <<"/">> \o chapterId
                                      \o <<".pgn", "?">> \o ParamsToString(params),
                                   NoOptions, settled)
           IN
           IF r.state # "returned" THEN NotReturned(r)
           ELSE IF ~Ok(r.response)
           THEN IF r.response.status = 404
                THEN Throw(Error("NotFound", <<"Study chapter not found">>), r.sent)
                ELSE Throw(Error("UpstreamError",
                                 <<"Failed to export study chapter: ">>
                                    \o r.response.statusText), r.sent)
           ELSE Return(responseText(r.response), r.sent))

export_all_study_chapters(tok, a, settled) ==
    LET studyId == ToString(Arg(a, "studyId"))
        params == BooleanParams(a, <<"clocks", "comments", "variations", "source",
                                     "orientation">>)
    IN
    IF WrongLength(studyId)
    THEN Throw(Error("ValidationError", <<"Study ID must be exactly 8 characters long">>),
               <<>>)
    ELSE Catch(<<"Failed to export study chapters: ">>,
           LET r == lichessRequest(tok,
                                   <<"/study/">> \o studyId \o <<".pgn", "?">>
                                      \o ParamsToString(params),
                                   NoOptions, settled)
           IN
           IF r.state # "returned" THEN NotReturned(r)
           ELSE IF ~Ok(r.response)
           THEN IF r.response.status = 404
                THEN Throw(Error("NotFound", <<"Study not found">>), r.sent)
                ELSE Throw(Error("UpstreamError",
                                 <<"Failed to export study chapters: ">>
                                    \o r.response.statusText), r.sent)
           ELSE Return(responseText(r.response), r.sent))

\* a variant that looks for the token before it validates
get_leaderboard_TokenFirst(tok, a, settled) ==
    LET perfType == ToString(Arg(a, "perfType"))
        validPerfTypes ==
          {<<"ultraBullet">>, <<"bullet">>, <<"blitz">>, <<"rapid">>, <<"classical">>,
           <<"chess960">>, <<"crazyhouse">>, <<"antichess">>, <<"atomic">>, <<"horde">>,
           <<"kingOfTheHill">>, <<"racingKings">>, <<"threeCheck">>}
        nb == OrElse(ToNumber(Arg(a, "nb")), Num(100))
    IN
    IF TokenMissing(tok)
    THEN Throw(Error("MissingCredential",
                     <<"Lichess API token not set. Use the set_token tool first.">>), <<>>)
    ELSE IF perfType = <<>>
    THEN Throw(Error("ValidationError", <<"perfType parameter is required">>), <<>>)
    ELSE IF perfType \notin validPerfTypes
    THEN Throw(Error("ValidationError",
                     <<"Invalid perfType. Must be one of: ">>
                        \o <<"ultraBullet, bullet, blitz, rapid, classical, chess960, crazyhouse, antichess, atomic, horde, kingOfTheHill, racingKings, threeCheck">>),
               <<>>)
    ELSE IF LessThan(nb, 1) \/ GreaterThan(nb, 200)
    THEN Throw(Error("ValidationError", <<"nb parameter must be between 1 and 200">>),
               <<>>)
    ELSE LET r == lichessRequest(tok,
                                 <<"/player/top/">> \o ToString(nb) \o <<"/">> \o perfType,
                                 NoOptions, settled)
         IN
         IF r.state # "returned" THEN NotReturned(r) ELSE ReturnJson(r)

get_leaderboard(tok, a, settled) ==
    LET perfType == ToString(Arg(a, "perfType"))
        validPerfTypes ==
          {<<"ultraBullet">>, <<"bullet">>, <<"blitz">>, <<"rapid">>, <<"classical">>,
           <<"chess960">>, <<"crazyhouse">>, <<"antichess">>, <<"atomic">>, <<"horde">>,
           <<"kingOfTheHill">>, <<"racingKings">>, <<"threeCheck">>}
        nb == OrElse(ToNumber(Arg(a, "nb")), Num(100))
    IN
    IF perfType = <<>>
    THEN Throw(Error("ValidationError", <<"perfType parameter is required">>), <<>>)
    ELSE IF perfType \notin validPerfTypes
    THEN Throw(Error("ValidationError",
                     <<"Invalid perfType. Must be one of: ">>
                        \o <<"ultraBullet, bullet, blitz, rapid, classical, chess960, crazyhouse, antichess, atomic, horde, kingOfTheHill, racingKings, threeCheck">>),
               <<>>)
    ELSE IF LessThan(nb, 1) \/ GreaterThan(nb, 200)
    THEN Throw(Error("ValidationError", <<"nb parameter must be between 1 and 200">>),
               <<>>)
    ELSE LET r == lichessRequest(tok,
                                 <<"/player/top/">> \o ToString(nb) \o <<"/">> \o perfType,
                                 NoOptions, settled)
         IN
         IF r.state # "returned" THEN NotReturned(r) ELSE ReturnJson(r)

get_puzzle_dashboard(tok, a, settled) ==
    LET days == OrElse(ToNumber(Arg(a, "days")), Num(30)) IN
    IF days.t = "nan"
    THEN Throw(Error("ValidationError", <<"days parameter must be a number">>), <<>>)
    ELSE IF LessThan(days, 1)
    THEN Throw(Error("ValidationError", <<"days parameter must be at least 1">>), <<>>)
    ELSE IF GreaterThan(days, 30)
    THEN Throw(Error("ValidationError", <<"days parameter must not exceed 30">>), <<>>)
    ELSE Catch(<<"Failed to get puzzle dashboard: ">>,
           LET r == lichessRequest(tok, <<"/puzzle/dashboard/">> \o ToString(days),
                                   NoOptions, settled)
           IN
           IF r.state # "returned" THEN NotReturned(r)
           ELSE IF ~Ok(r.response)
           THEN Throw(Error("UpstreamError",
                            <<"Failed to get puzzle dashboard: ">> \o r.response.statusText),
                      r.sent)
           ELSE ReturnJson(r))

get_timeline(tok, a, settled) ==
    LET since == Arg(a, "since")
        nb == OrElse(Arg(a, "nb"), Num(15))
        queryParams == AppendIf(Truthy(since), <<"since">>, ToString(since))
                       \o AppendIf(Truthy(nb), <<"nb">>, ToString(nb))
        r == lichessRequest(tok, <<"/timeline", "?">> \o ParamsToString(queryParams),
                            NoOptions, settled)
    IN
    IF r.state # "returned" THEN NotReturned(r) ELSE ReturnJson(r)

(* ---------------------------------------------------------------------- *)
(* The state machine                                                      *)
(* ---------------------------------------------------------------------- *)
\* invocations the server can hold at once
NumSlots == 2
\* distinct bearer tokens
NumTokens == 2

\* the longest identifier a caller passes
MaxIdLen == 9

Slots == 1..NumSlots

TokenStrings == {<<"t", Digit(k)>> : k \in 1..NumTokens}

Absent == Undefined
Empty == Str(<<>>)
Blank == Str(<<" ">>)
Alice == Str(<<"a", "l", "i", "c", "e">>)
GameId == Str(<<"q", "7", "Z", "v", "s", "d", "U", "D">>)
Move == Str(<<"e", "2", "e", "4">>)
TeamId == Str(<<"c", "l", "u", "b">>)
SwissId == Str(<<"s", "w", "1">>)

\* what a caller may pass for a string argument
StringArgs == {Absent, Empty, Blank, Alice}
FlagArgs == {Absent, Bool(TRUE)}

\* what a caller may pass for a game, study or chapter identifier: nothing,
\* or a string of any length up to MaxIdLen
IdOfLength(n) == Str([i \in 1..n |-> Digit(i % 10)])
IdArgs == {Absent} \cup {IdOfLength(n) : n \in 0..MaxIdLen}

ToolNames ==
    {"set_token", "get_my_profile", "get_user_profile", "test_tokens", "revoke_token",
     "add_user_note", "follow_user", "get_users_status", "get_user_public_data",
     "make_board_move", "export_user_games", "create_arena", "join_team",
     "get_user_performance", "get_following", "export_games_by_ids", "get_swiss_games",
     "export_game", "get_tv_game", "export_study_chapter", "export_all_study_chapters",
     "get_leaderboard", "get_timeline", "create_swiss", "get_puzzle_dashboard"}

\* the argument bags tried for each tool
ArgBags(name) ==
    CASE name = "set_token" -> [token : {Absent, Empty} \cup {Str(s) : s \in TokenStrings}]
      [] name = "get_my_profile" -> {<<>>}
      [] name = "get_user_profile" -> [username : StringArgs, trophies : FlagArgs]
      [] name = "test_tokens" -> [tokens : {Absent, Empty, Str(<<"t", "1", ",", "t", "2">>)}]
      [] name = "revoke_token" -> {<<>>}
      [] name = "add_user_note" -> [username : StringArgs, text : StringArgs]
      [] name = "follow_user" -> [username : StringArgs]
      [] name = "get_users_status" ->
            [ids : {Absent, Empty, Str(<<"a", "l", "i", "c", "e", ",", "b", "o", "b">>)},
             withSignal : FlagArgs]
      [] name = "get_user_public_data" -> [username : StringArgs, withTrophies : FlagArgs]
      [] name = "make_board_move" ->
            [gameId : {Absent, Blank, GameId}, move : {Absent, Empty, Move},
             offeringDraw : FlagArgs]
      [] name = "export_user_games" ->
            [username : StringArgs, max : {Absent, Num(0), Num(5)},
             color : {Absent, Str(<<"white">>), Str(<<"purple">>)},
             sort : {Absent, Str(<<"sideways">>)},
             rated : {Absent, Bool(FALSE)}]
      [] name = "create_arena" ->
            [name : {Absent, Empty, Str(<<"c", "u", "p">>)},
             clockTime : {Absent, Num(0), Num(5), Num(-1)},
             minutes : {Absent, Num(0), Num(60), Num(-1)},
             variant : {Absent, Str(<<"standard">>), Str(<<"bogus">>)},
             startDate : {Absent, Str(<<"soon">>)}]
      [] name = "join_team" ->
            [teamId : {Absent, Blank, TeamId}, message : {Absent, Blank, Str(<<"h", "i">>)}]
      [] name = "get_user_performance" ->
            [username : {Absent, Alice}, perf : {Absent, Str(<<"blitz">>)}]
      [] name = "get_following" -> {<<>>}
      [] name = "export_games_by_ids" ->
            [ids : {Absent, Empty, GameId}, moves : {Absent, Bool(FALSE)}]
      [] name = "get_swiss_games" ->
            [swissId : {Absent, Blank, SwissId}, player : {Absent, Alice},
             moves : {Absent, Bool(FALSE)}]
      [] name = "export_game" -> [gameId : IdArgs, moves : {Absent, Bool(FALSE)}]
      [] name = "get_tv_game" -> [channel : {Absent, Str(<<"blitz">>), Str(<<"bogus">>)}]
      [] name = "export_study_chapter" ->
            [studyId : IdArgs, chapterId : IdArgs, clocks : FlagArgs]
      [] name = "export_all_study_chapters" -> [studyId : IdArgs, clocks : FlagArgs]
      [] name = "get_leaderboard" ->
            [perfType : {Absent, Str(<<"blitz">>), Str(<<"bogus">>)},
             nb : {Absent, Num(-1), Num(0), Num(1), Num(50), Num(200), Num(201)}]
      [] name = "get_timeline" ->
            [since : {Absent, Num(0), Num(7)}, nb : {Absent, Num(0), Num(5), Num(31)}]
      [] name = "create_swiss" ->
            [name : {Absent, Str(<<"c", "u", "p">>)},
             teamId : {Absent, TeamId},
             clock : {Absent} \cup {Obj([limit |-> l, increment |-> i]) :
                                      l \in {Undefined, Num(0), Num(300), Num(-1)},
                                      i \in {Undefined, Num(0), Num(5)}}]
      [] name = "get_puzzle_dashboard" ->
            [days : {Absent, Num(-1), Num(0), Num(1), Num(7), Num(30), Num(31)}]

\* response bodies: one document, a truncated document, two records around
\* a blank line, a record followed by a truncated one, and a PGN text
Bodies ==
    {<<"{a:1}">>,
     <<"{a:">>,
     <<"{a:1}", "\n", "\n", "{a:2}", "\n">>,
     <<"{a:1}", "\n", "{a:">>,
     <<"[Event \"Casual\"]", "\n", "\n", "1. e4 e5 *", "\n">>}

ContentTypes ==
    {Str(<<"application/json">>), Str(<<"application/x-ndjson">>),
     Str(<<"application/x-chess-pgn">>)}

\* what a fetch can settle to
Settlements ==
    {Response(200, <<"OK">>, c, b) : c \in ContentTypes, b \in Bodies}
    \cup {Response(404, <<"Not Found">>, Str(<<"application/json">>), <<>>),
          Response(400, <<"Bad Request">>, Str(<<"application/json">>), <<>>),
          Response(403, <<"Forbidden">>, Str(<<"application/json">>), <<>>),
          Response(500, <<"Internal Server Error">>, Str(<<"application/json">>), <<>>),
          Rejected(<<"fetch failed">>)}

\* switch (request.params.name)
Handler(name, tok, a, settled) ==
    CASE name = "set_token" -> set_token(tok, a, settled)
      [] name = "get_my_profile" -> get_my_profile(tok, a, settled)
      [] name = "get_user_profile" -> get_user_profile(tok, a, settled)
      [] name = "test_tokens" -> test_tokens(tok, a, settled)
      [] name = "revoke_token" -> revoke_token(tok, a, settled)
      [] name = "add_user_note" -> add_user_note(tok, a, settled)
      [] name = "follow_user" -> follow_user(tok, a, settled)
      [] name = "get_users_status" -> get_users_status(tok, a, settled)
      [] name = "get_user_public_data" -> get_user_public_data(tok, a, settled)
      [] name = "make_board_move" -> make_board_move(tok, a, settled)
      [] name = "export_user_games" -> export_user_games(tok, a, settled)
      [] name = "create_arena" -> create_arena(tok, a, settled)
      [] name = "join_team" -> join_team(tok, a, settled)
      [] name = "get_user_performance" -> get_user_performance(tok, a, settled)
      [] name = "get_following" -> get_following(tok, a, settled)
      [] name = "export_games_by_ids" -> export_games_by_ids(tok, a, settled)
      [] name = "get_swiss_games" -> get_swiss_games(tok, a, settled)
      [] name = "export_game" -> export_game(tok, a, settled)
      [] name = "get_tv_game" -> get_tv_game(tok, a, settled)
      [] name = "export_study_chapter" -> export_study_chapter(tok, a, settled)
      [] name = "export_all_study_chapters" -> export_all_study_chapters(tok, a, settled)
      [] name = "get_leaderboard" -> get_leaderboard(tok, a, settled)
      [] name = "get_timeline" -> get_timeline(tok, a, settled)
      [] name = "create_swiss" -> create_swiss(tok, a, settled)
      [] name = "get_puzzle_dashboard" -> get_puzzle_dashboard(tok, a, settled)
      [] OTHER -> Throw(Error("UnknownTool", <<"Unknown tool">>), <<>>)

VARIABLES
    LICHESS_TOKEN,  \* the module variable: Undefined or a string
    inv,            \* per slot, the invocation it holds
    lastCred        \* history: the last set_token or revoke_token that succeeded

vars == <<LICHESS_TOKEN, inv, lastCred>>

Idle == [pc |-> "idle"]

NoCred == [tool |-> "none"]

\* process.env.LICHESS_TOKEN: unset, or any string
Init ==
    /\ LICHESS_TOKEN \in {Undefined, Empty} \cup {Str(s) : s \in TokenStrings}
    /\ inv = [s \in Slots |-> Idle]
    /\ lastCred = NoCred

\* the state after a run of the handler, from its start or from its await
Ran(s, name, a, tok0, cred0, eff, settled) ==
    /\ inv' = [inv EXCEPT ![s] =
                 [pc |-> eff.pc, name |-> name, args |-> a, tok0 |-> tok0,
                  cred0 |-> cred0, http |-> eff.http, outcome |-> eff.outcome,
                  settled |-> settled]]
    /\ LICHESS_TOKEN' = IF eff.write.w THEN eff.write.v ELSE LICHESS_TOKEN
    /\ lastCred' = IF name \in {"set_token", "revoke_token"} /\ eff.outcome.type = "result"
                   THEN [tool |-> name, args |-> a]
                   ELSE lastCred

\* The transport hands one tools/call request to the handler, which runs to
\* its first await or to its end.  The caller sends a request when it has
\* the reply to the one before.
CallTool(s) ==
    /\ \A u \in Slots : inv[u].pc = "idle"
    /\ \E name \in ToolNames : \E a \in ArgBags(name) :
          Ran(s, name, a, LICHESS_TOKEN, lastCred,
              Handler(name, LICHESS_TOKEN, a, Pending), Pending)

\* The fetch of a suspended invocation settles and its handler runs on.
Settle(s) ==
    /\ inv[s].pc = "awaiting"
    /\ \E settled \in Settlements :
          Ran(s, inv[s].name, inv[s].args, inv[s].tok0, inv[s].cred0,
              Handler(inv[s].name, inv[s].tok0, inv[s].args, settled), settled)

\* The result or the error goes back to the caller.
Reply(s) ==
    /\ inv[s].pc = "done"
    /\ inv' = [inv EXCEPT ![s] = Idle]
    /\ UNCHANGED <<LICHESS_TOKEN, lastCred>>

Next == \E s \in Slots : CallTool(s) \/ Settle(s) \/ Reply(s)

Spec == Init /\ [][Next]_vars

\* one settlement of each kind: a JSON document, records with a truncated
\* line, a PGN text, a truncated document, a refusal and a network failure
FairSettlements ==
    {Response(200, <<"OK">>, Str(<<"application/json">>), <<"{a:1}">>),
     Response(200, <<"OK">>, Str(<<"application/x-ndjson">>), <<"{a:1}", "\n", "{a:">>),
     Response(200, <<"OK">>, Str(<<"application/x-chess-pgn">>),
              <<"[Event \"Casual\"]", "\n", "\n", "1. e4 e5 *", "\n">>),
     Response(200, <<"OK">>, Str(<<"application/json">>), <<"{a:">>),
     Response(404, <<"Not Found">>, Str(<<"application/json">>), <<>>),
     Rejected(<<"fetch failed">>)}

\* one tool of each pipeline: the credential store, a JSON reply, a fetch of
\* the handler's own, NDJSON records, a PGN text, validated arguments
FairTools ==
    {"set_token", "revoke_token", "get_my_profile", "test_tokens", "get_following",
     "export_game", "get_leaderboard"}

\* the transport hands a request to the handler
FairCall(s) ==
    /\ \A u \in Slots : inv[u].pc = "idle"
    /\ \E name \in FairTools : \E a \in ArgBags(name) :
          Ran(s, name, a, LICHESS_TOKEN, lastCred,
              Handler(name, LICHESS_TOKEN, a, Pending), Pending)

\* the fetch of a suspended invocation returns or fails
FairSettle(s) ==
    /\ inv[s].pc = "awaiting"
    /\ \E settled \in FairSettlements :
          Ran(s, inv[s].name, inv[s].args, inv[s].tok0, inv[s].cred0,
              Handler(inv[s].name, inv[s].tok0, inv[s].args, settled), settled)

FairNext == \E s \in Slots : FairCall(s) \/ FairSettle(s) \/ Reply(s)

\* Every HTTP call returns or fails: node-fetch settles its promise, and the
\* event loop then runs the suspended handler on.
FairSpec == Init /\ [][FairNext]_vars /\ WF_vars(\E s \in Slots : FairSettle(s))

(* ---------------------------------------------------------------------- *)
(* Requests that arrive while an invocation is suspended.  The handler is  *)
(* an async function: it returns to the event loop at its await, and the   *)
(* source keeps no queue, lock or flag that would hold back the next call. *)
(* ---------------------------------------------------------------------- *)
\* the tools and answers tried when requests overlap
RacingTools == {"set_token", "revoke_token", "get_my_profile"}

RacingBags(name) ==
    IF name = "set_token" THEN [token : {Str(t) : t \in TokenStrings}] ELSE {<<>>}

RacingSettlements ==
    {Response(200, <<"OK">>, Str(<<"application/json">>), <<"{a:1}">>),
     Response(500, <<"Internal Server Error">>, Str(<<"application/json">>), <<>>),
     Rejected(<<"fetch failed">>)}

\* a variant that reads LICHESS_TOKEN again when the fetch has settled
HeldToken_ReadAgain(s) == LICHESS_TOKEN

\* the token a suspended invocation built its request with
HeldToken(s) == inv[s].tok0

\* A tools/call request arrives and its handler runs to its first await or
\* to its end, whatever the other invocations are doing.
Deliver(s) ==
    /\ inv[s].pc = "idle"
    /\ \E name \in RacingTools : \E a \in RacingBags(name) :
          Ran(s, name, a, LICHESS_TOKEN, lastCred,
              Handler(name, LICHESS_TOKEN, a, Pending), Pending)

\* The fetch of a suspended invocation settles and its handler runs on.
Resume(s) ==
    /\ inv[s].pc = "awaiting"
    /\ \E settled \in RacingSettlements :
          Ran(s, inv[s].name, inv[s].args, inv[s].tok0, inv[s].cred0,
              Handler(inv[s].name, HeldToken(s), inv[s].args, settled), settled)

ConcurrentNext == \E s \in Slots : Deliver(s) \/ Resume(s) \/ Reply(s)

ConcurrentSpec == Init /\ [][ConcurrentNext]_vars

(* ---------------------------------------------------------------------- *)
(* Vocabulary of the properties                                           *)
(* ---------------------------------------------------------------------- *)
\* the arguments each tool's inputSchema lists as required
Required(name) ==
    CASE name = "set_token" -> {"token"}
      [] name = "get_user_profile" -> {"username"}
      [] name = "test_tokens" -> {"tokens"}
      [] name = "add_user_note" -> {"username", "text"}
      [] name = "follow_user" -> {"username"}
      [] name = "get_users_status" -> {"ids"}
      [] name = "get_user_public_data" -> {"username"}
      [] name = "make_board_move" -> {"gameId", "move"}
      [] name = "export_user_games" -> {"username"}
      [] name = "create_arena" -> {"name"}
      [] name = "join_team" -> {"teamId"}
      [] name = "get_user_performance" -> {"username", "perf"}
      [] name = "export_games_by_ids" -> {"ids"}
      [] name = "get_swiss_games" -> {"swissId"}
      [] name = "export_game" -> {"gameId"}
      [] name = "export_study_chapter" -> {"studyId", "chapterId"}
      [] name = "export_all_study_chapters" -> {"studyId"}
      [] name = "get_leaderboard" -> {"perfType"}
      [] name = "create_swiss" -> {"name", "teamId", "clock"}
      [] OTHER -> {}

\* the tools that need the stored token: those that call lichessRequest, and revoke_token
Authenticated(name) == name \in ToolNames \ {"set_token", "test_tokens"}

\* the tools whose handler has a branch for a 404 on the user it was asked about
UserLookup == {"add_user_note", "follow_user", "get_user_public_data", "export_user_games"}

\* the tools whose handler has a branch for status 400
Has400Branch == {"follow_user", "make_board_move", "create_arena"}

\* argument bags that satisfy every constraint the tool documents
WellFormed(name, a) ==
    CASE name = "get_user_profile" -> a.username = Alice
      [] name = "test_tokens" -> a.tokens \notin {Absent, Empty}
      [] name = "add_user_note" -> a.username = Alice /\ a.text = Alice
      [] name = "follow_user" -> a.username = Alice
      [] name = "get_users_status" -> a.ids \notin {Absent, Empty}
      [] name = "get_user_public_data" -> a.username = Alice
      [] name = "make_board_move" -> a.gameId = GameId /\ a.move = Move
      [] name = "export_user_games" ->
            /\ a.username = Alice
            /\ a.max \in {Absent, Num(5)}
            /\ a.color \in {Absent, Str(<<"white">>)}
            /\ a.sort = Absent
      [] name = "create_arena" ->
            /\ a.name = Str(<<"c", "u", "p">>)
            /\ a.clockTime \in {Absent, Num(0), Num(5)}
            /\ a.minutes \in {Absent, Num(60)}
            /\ a.variant \in {Absent, Str(<<"standard">>)}
            /\ a.startDate = Absent
      [] name = "join_team" -> a.teamId = TeamId
      [] name = "get_user_performance" -> a.username = Alice /\ a.perf = Str(<<"blitz">>)
      [] name = "export_games_by_ids" -> a.ids = GameId
      [] name = "get_swiss_games" -> a.swissId = SwissId
      [] name = "export_game" -> a.gameId = IdOfLength(8)
      [] name = "get_tv_game" -> a.channel \in {Absent, Str(<<"blitz">>)}
      [] name = "export_study_chapter" ->
            a.studyId = IdOfLength(8) /\ a.chapterId = IdOfLength(8)
      [] name = "export_all_study_chapters" -> a.studyId = IdOfLength(8)
      [] name = "get_leaderboard" ->
            /\ a.perfType = Str(<<"blitz">>)
            /\ a.nb \in {Absent, Num(1), Num(50), Num(200)}
      [] name = "get_timeline" -> a.since \in {Absent, Num(7)} /\ a.nb \in {Absent, Num(5)}
      [] name = "create_swiss" ->
            /\ a.name = Str(<<"c", "u", "p">>)
            /\ a.teamId = TeamId
            /\ a.clock = Obj([limit |-> Num(300), increment |-> Num(5)])
      [] name = "get_puzzle_dashboard" -> a.days \in {Absent, Num(1), Num(7), Num(30)}
      [] OTHER -> TRUE

Active == {s \in Slots : inv[s].pc # "idle"}
Finished == {s \in Slots : inv[s].pc = "done"}

Failed(s) == inv[s].outcome.type = "error"
FailedAs(s, kind) == Failed(s) /\ inv[s].outcome.kind = kind

\* the fetch of the invocation in s settled to a non-2xx response or was rejected
RemoteFailure(s) ==
    \/ inv[s].settled.kind = "rejected"
    \/ inv[s].settled.kind = "response" /\ ~Ok(inv[s].settled)

Answered(s, status) ==
    inv[s].settled.kind = "response" /\ inv[s].settled.status = status

OmitsRequired(s) == \E k \in Required(inv[s].name) : Arg(inv[s].args, k) = Undefined

(* ---------------------------------------------------------------------- *)
(* Properties                                                             *)
(* ---------------------------------------------------------------------- *)

\* C1: an invocation that omits an argument its tool requires ends in a
\* validation error, has issued no HTTP request and leaves LICHESS_TOKEN as
\* it was.
C1_OmittedRequiredArgumentRejected ==
    \A s \in Active :
       OmitsRequired(s) =>
          /\ inv[s].pc = "done"
          /\ FailedAs(s, "ValidationError")
          /\ inv[s].http = <<>>
          /\ LICHESS_TOKEN = inv[s].tok0

\* C2: an invocation of a tool that needs the token, with well-formed
\* arguments, started while no token is stored, ends in the
\* missing-credential error and has issued no HTTP request.
C2_NoTokenNoRequest ==
    \A s \in Active :
       ( /\ Authenticated(inv[s].name)
         /\ WellFormed(inv[s].name, inv[s].args)
         /\ ~Truthy(inv[s].tok0) )
       => /\ inv[s].pc = "done"
          /\ FailedAs(s, "MissingCredential")
          /\ inv[s].http = <<>>

C2_Witness ==
    \E s \in Finished :
       /\ inv[s].name = "create_arena"
       /\ WellFormed(inv[s].name, inv[s].args)
       /\ inv[s].tok0 = Undefined
       /\ FailedAs(s, "MissingCredential")

\* C3: when the last successful set_token or revoke_token before an
\* invocation was set_token(T), every request the invocation sends carries
\* Authorization: Bearer T, and an invocation with well-formed arguments
\* does send one.
C3_BearerIsLastSetToken ==
    \A s \in Active :
       (Authenticated(inv[s].name) /\ inv[s].cred0.tool = "set_token")
       => /\ \A i \in 1..Len(inv[s].http) :
                inv[s].http[i].headers["Authorization"]
                   = Str(<<"Bearer ">> \o ToString(Arg(inv[s].cred0.args, "token")))
          /\ WellFormed(inv[s].name, inv[s].args) => Len(inv[s].http) = 1

C3_Witness ==
    \E s \in Active :
       /\ inv[s].name = "get_my_profile"
       /\ inv[s].cred0.tool = "set_token"
       /\ inv[s].cred0.args.token = Str(<<"t", "2">>)
       /\ inv[s].tok0 = Str(<<"t", "2">>)
       /\ Len(inv[s].http) = 1

\* C4: a revoke_token invocation whose DELETE is answered with a non-2xx
\* status or is rejected ends in an error and leaves LICHESS_TOKEN equal to
\* its value when the invocation started.
C4_FailedRevokeKeepsToken ==
    \A s \in Finished :
       (inv[s].name = "revoke_token" /\ RemoteFailure(s))
       => Failed(s) /\ LICHESS_TOKEN = inv[s].tok0

C4_Witness ==
    \E s \in Finished :
       /\ inv[s].name = "revoke_token"
       /\ Answered(s, 500)
       /\ LICHESS_TOKEN = Str(<<"t", "1">>)

\* C5: a revoke_token that succeeds leaves no token stored, and while it is
\* the last successful set_token or revoke_token, every invocation of a tool
\* that needs the token ends in an error without an HTTP request: the
\* missing-credential error when its arguments are well-formed.
C5_RevokedMeansMissingCredential ==
    /\ \A s \in Finished :
          (inv[s].name = "revoke_token" /\ ~Failed(s)) => LICHESS_TOKEN = Undefined
    /\ \A s \in Active :
          (Authenticated(inv[s].name) /\ inv[s].cred0.tool = "revoke_token")
          => /\ inv[s].pc = "done"
             /\ Failed(s)
             /\ inv[s].http = <<>>
             /\ WellFormed(inv[s].name, inv[s].args) => FailedAs(s, "MissingCredential")

C5_Witness ==
    \E s \in Finished :
       /\ inv[s].name = "get_user_public_data"
       /\ inv[s].cred0.tool = "revoke_token"
       /\ WellFormed(inv[s].name, inv[s].args)
       /\ FailedAs(s, "MissingCredential")

\* C6: LICHESS_TOKEN is either undefined or one string, and a step changes
\* it only when the step belongs to a set_token or a revoke_token
\* invocation.
C6_OnlySetAndRevokeWrite ==
    /\ [](LICHESS_TOKEN = Undefined \/ LICHESS_TOKEN.t = "string")
    /\ [][ LICHESS_TOKEN' # LICHESS_TOKEN
           => \E s \in Slots :
                 /\ inv'[s] # inv[s]
                 /\ inv'[s].pc # "idle"
                 /\ inv'[s].name \in {"set_token", "revoke_token"} ]_vars

C6_Witness ==
    \E s \in Finished :
       /\ inv[s].name = "get_my_profile"
       /\ Answered(s, 500)
       /\ Failed(s)
       /\ LICHESS_TOKEN = Str(<<"t", "1">>)

\* C7: an invocation that ends in a validation error has issued no HTTP
\* request.
C7_ValidationBeforeRequest ==
    \A s \in Active : FailedAs(s, "ValidationError") => inv[s].http = <<>>

C7_Witness ==
    \E s \in Finished :
       /\ inv[s].name = "create_arena"
       /\ Truthy(inv[s].tok0)
       /\ inv[s].args.minutes = Num(-1)
       /\ FailedAs(s, "ValidationError")

\* C8: an invocation issues at most one HTTP request, also when that
\* request fails.
C8_AtMostOneRequest ==
    \A s \in Active : Len(inv[s].http) <= 1

C8_Witness ==
    \E s \in Finished :
       /\ inv[s].name = "get_user_public_data"
       /\ Answered(s, 500)
       /\ Failed(s)
       /\ Len(inv[s].http) = 1

\* C9: when the remote answers 404 to a user lookup with well-formed
\* arguments, the error raised is the not-found error and its message
\* contains the requested username.
C9_NotFoundNamesUser ==
    \A s \in Finished :
       ( /\ inv[s].name \in UserLookup
         /\ WellFormed(inv[s].name, inv[s].args)
         /\ Answered(s, 404) )
       => /\ FailedAs(s, "NotFound")
          /\ Includes(inv[s].outcome.message, ToString(Arg(inv[s].args, "username")))

\* C10: when the remote answers 400 to an invocation with well-formed
\* arguments, the invocation ends in the invalid-request error, not in the
\* error of the other non-2xx statuses.
C10_BadRequestIsInvalidRequest ==
    \A s \in Finished :
       ( /\ inv[s].name \in Has400Branch
         /\ WellFormed(inv[s].name, inv[s].args)
         /\ Answered(s, 400) )
       => FailedAs(s, "InvalidRequest")

\* C11: when the remote answers with a non-2xx status other than 404 and
\* 400, the invocation ends in the upstream error and the message of that
\* error contains the reason phrase (statusText) of the response.
C11_UpstreamErrorCarriesStatusText ==
    \A s \in Finished :
       ( /\ inv[s].settled.kind = "response"
         /\ ~Ok(inv[s].settled)
         /\ inv[s].settled.status \notin {404, 400} )
       => /\ FailedAs(s, "UpstreamError")
          /\ Includes(inv[s].outcome.message, inv[s].settled.statusText)

C11_Witness ==
    \E s \in Finished :
       /\ inv[s].name = "join_team"
       /\ Answered(s, 403)
       /\ inv[s].outcome.message = <<"Failed to join team: ", "Lichess API error: ", "Forbidden">>

\* the messages of the errors a failed remote call raises, before any tool
\* has added to them: that of lichessRequest, of a rejected fetch, and of
\* JSON.parse
RawRemoteMessage(s) ==
    \/ Head(inv[s].outcome.message) = "Lichess API error: "
    \/ inv[s].settled.kind = "rejected" /\ inv[s].outcome.message = inv[s].settled.message
    \/ FailedAs(s, "ParseError") /\ Len(inv[s].outcome.message) = 1

\* C12: an error raised by a failed remote call (a non-2xx status, a
\* rejected fetch or a body that does not decode) reaches the caller behind
\* a prefix of the tool; the message of lichessRequest, of the transport or
\* of the parser never arrives as it was raised.
C12_RemoteErrorsArePrefixed ==
    \A s \in Finished :
       ( /\ WellFormed(inv[s].name, inv[s].args)
         /\ Failed(s)
         /\ inv[s].http # <<>> )
       => ~RawRemoteMessage(s)

\* the tools that read a newline-delimited JSON body
NdjsonTools == {"export_user_games", "export_games_by_ids", "get_swiss_games", "get_following"}

\* the invocation in s was answered 200 with a body declared as kind
Declared(s, kind) ==
    /\ Answered(s, 200)
    /\ inv[s].settled.contentType = Str(<<kind>>)

\* a text in which every line is blank or is one JSON document
RecordLines(text) ==
    /\ \A i \in 1..Len(text) : text[i] \in JsonDocuments \/ IsSpace(text[i])
    /\ \A i, j \in 1..Len(text) :
          (i < j /\ text[i] \in JsonDocuments /\ text[j] \in JsonDocuments)
          => \E k \in (i + 1)..(j - 1) : text[k] = "\n"

\* the documents of a text, in the order they appear
Records(text) == SelectSeq(text, LAMBDA c : c \in JsonDocuments)

\* C13: a body declared newline-delimited JSON whose lines are blank or one
\* JSON document each is returned as the sequence of those documents, one
\* per non-blank line, in the order of the lines; the blank lines add
\* nothing.
C13_NdjsonRecordsInOrder ==
    \A s \in Finished :
       ( /\ inv[s].name \in NdjsonTools
         /\ Declared(s, "application/x-ndjson")
         /\ RecordLines(inv[s].settled.body) )
       => inv[s].outcome = Result(JSONstringify(Records(inv[s].settled.body)))

C13_Witness ==
    \E s \in Finished :
       /\ inv[s].name = "export_games_by_ids"
       /\ Declared(s, "application/x-ndjson")
       /\ inv[s].settled.body = <<"{a:1}", "\n", "\n", "{a:2}", "\n">>
       /\ inv[s].outcome = Result(JSONstringify(<<"{a:1}", "{a:2}">>))

\* C14: when a body declared newline-delimited JSON has a non-blank line
\* that is not one JSON document, the invocation ends in an error: it never
\* returns a result, so none made of the well-formed lines alone.
C14_MalformedLineFailsInvocation ==
    \A s \in Finished :
       ( /\ inv[s].name \in NdjsonTools
         /\ Declared(s, "application/x-ndjson")
         /\ ~RecordLines(inv[s].settled.body) )
       => FailedAs(s, "ParseError")

C14_Witness ==
    \E s \in Finished :
       /\ inv[s].name = "get_swiss_games"
       /\ Declared(s, "application/x-ndjson")
       /\ inv[s].settled.body = <<"{a:1}", "\n", "{a:">>
       /\ FailedAs(s, "ParseError")

\* the tools that hand a PGN body to the caller
PgnTools ==
    {"export_game", "get_tv_game", "export_user_games", "export_games_by_ids",
     "export_study_chapter", "export_all_study_chapters"}

\* C15: when a response is declared with the PGN media type, the text
\* returned to the caller is the response body, token for token: it is not
\* parsed, trimmed or encoded as JSON.
C15_PgnBodyReturnedAsIs ==
    \A s \in Finished :
       (inv[s].name \in PgnTools /\ Declared(s, "application/x-chess-pgn"))
       => inv[s].outcome = Result(inv[s].settled.body)

C15_Witness ==
    \E s \in Finished :
       /\ inv[s].name = "export_game"
       /\ Declared(s, "application/x-chess-pgn")
       /\ JSONparse(inv[s].settled.body).threw
       /\ inv[s].outcome.type = "result"
       /\ inv[s].outcome.content[1].text
             = <<"[Event \"Casual\"]", "\n", "\n", "1. e4 e5 *", "\n">>

\* the decoding the declared content type selects: the text for PGN, the
\* records of the lines for newline-delimited JSON, and for any other type
\* the body as one JSON document
DecodedByContentType(response) ==
    IF ContentTypeIncludes(response, "application/x-chess-pgn")
    THEN [threw |-> FALSE, text |-> response.body]
    ELSE LET content == IF ContentTypeIncludes(response, "application/x-ndjson")
                        THEN ParseLines(response.body)
                        ELSE JSONparse(response.body)
         IN IF content.threw THEN content
            ELSE [threw |-> FALSE, text |-> JSONstringify(content.value)]

\* C16: what a tool makes of a successful response depends on the declared
\* content type alone: PGN is returned as text, newline-delimited JSON as
\* the sequence of its records, and a body of any other type is parsed as
\* one JSON document, for export_user_games and get_following as for the
\* other tools that return the body.
C16_DecodingFollowsContentType ==
    \A s \in Finished :
       ( /\ inv[s].name \in PgnTools \cup NdjsonTools
         /\ WellFormed(inv[s].name, inv[s].args)
         /\ Answered(s, 200) )
       => LET decoded == DecodedByContentType(inv[s].settled) IN
          IF decoded.threw THEN FailedAs(s, "ParseError")
          ELSE inv[s].outcome = Result(decoded.text)

\* C17: for get_leaderboard with a valid perfType, a supplied nb outside
\* 1..200 ends the invocation in a validation error with no HTTP request,
\* and a supplied nb inside 1..200 is the nb of the request path.
C17_LeaderboardNbRange ==
    \A s \in Active :
       ( /\ inv[s].name = "get_leaderboard"
         /\ inv[s].args.perfType = Str(<<"blitz">>)
         /\ inv[s].args.nb # Absent )
       => LET nb == inv[s].args.nb.v IN
          IF nb < 1 \/ nb > 200
          THEN /\ inv[s].pc = "done"
               /\ FailedAs(s, "ValidationError")
               /\ inv[s].http = <<>>
          ELSE /\ Truthy(inv[s].tok0) => Len(inv[s].http) = 1
               /\ \A i \in 1..Len(inv[s].http) :
                     inv[s].http[i].url
                        = LICHESS_API_URL \o <<"/player/top/">> \o Decimal(nb)
                             \o <<"/", "blitz">>

\* the tools that take 8-character identifiers, and the arguments that hold them
IdArguments(name) ==
    CASE name = "export_game" -> {"gameId"}
      [] name = "export_study_chapter" -> {"studyId", "chapterId"}
      [] name = "export_all_study_chapters" -> {"studyId"}
      [] OTHER -> {}

\* the identifier is omitted or is a string whose length is not 8
NotEightLong(v) == v = Absent \/ Len(v.v) # 8

\* C18: export_game, export_study_chapter and export_all_study_chapters end
\* in a validation error with no HTTP request when an identifier is omitted
\* or is not exactly 8 characters long, and do not end in a validation
\* error when every identifier is 8 characters long: with a token stored
\* they then send their request.
C18_IdentifiersAreEightLong ==
    \A s \in Active :
       IdArguments(inv[s].name) # {}
       => IF \E k \in IdArguments(inv[s].name) : NotEightLong(inv[s].args[k])
          THEN /\ inv[s].pc = "done"
               /\ FailedAs(s, "ValidationError")
               /\ inv[s].http = <<>>
          ELSE /\ ~FailedAs(s, "ValidationError")
               /\ Truthy(inv[s].tok0) => Len(inv[s].http) = 1

C18_Witness ==
    \E s \in Finished :
       /\ inv[s].name = "export_study_chapter"
       /\ Truthy(inv[s].tok0)
       /\ inv[s].args.studyId = IdOfLength(8)
       /\ inv[s].args.chapterId = IdOfLength(9)
       /\ inv[s].outcome
             = Error("ValidationError", <<"Chapter ID must be exactly 8 characters long">>)
       /\ inv[s].http = <<>>

\* a required argument of the invocation in s is a string that is empty
\* once its white space is trimmed
BlankRequired(s) ==
    \E k \in Required(inv[s].name) :
       Arg(inv[s].args, k).t = "string" /\ Trim(Arg(inv[s].args, k).v) = <<>>

\* C19: an invocation that passes, for a required string argument, a value
\* that is empty after trimming white space ends in a validation error and
\* has issued no HTTP request.
C19_BlankRequiredArgumentRejected ==
    \A s \in Active :
       BlankRequired(s)
       => /\ inv[s].pc = "done"
          /\ FailedAs(s, "ValidationError")
          /\ inv[s].http = <<>>

\* the query string of a URL: what follows its '?'
QueryOf(url) ==
    IF \A i \in 1..Len(url) : url[i] # "?" THEN <<>>
    ELSE LET i == CHOOSE i \in 1..Len(url) : url[i] = "?" /\ \A j \in 1..(i - 1) : url[j] # "?"
         IN SubSeq(url, i + 1, Len(url))

\* the query has the parameter name=value, as one of its '&'-separated parts
HasParameter(query, name, value) ==
    \E i \in 0..Len(query) : \E j \in 1..(Len(query) + 1) :
       /\ i = 0 \/ query[i] = "&"
       /\ j = Len(query) + 1 \/ query[j] = "&"
       /\ i < j
       /\ SubSeq(query, i + 1, j - 1) = <<name, "=">> \o value

\* C20: no request carries a query parameter whose value is the string
\* "undefined" made from an argument the caller did not supply: whatever
\* the query says about such an argument, it is not name=undefined.
C20_NoUndefinedInQuery ==
    \A s \in Active : \A i \in 1..Len(inv[s].http) : \A k \in DOMAIN inv[s].args :
       inv[s].args[k] = Undefined
       => ~HasParameter(QueryOf(inv[s].http[i].url), k, ToString(Undefined))

\* the Authorization header lichessRequest builds from the token tok
BearerOf(tok) == Str(<<"Bearer ">> \o ToString(tok))

\* C21, as claimed: no request of test_tokens or of revoke_token carries the
\* bearer header built from the stored token.
C21_NoStoredBearer ==
    \A s \in Active : \A i \in 1..Len(inv[s].http) :
       inv[s].name \in {"test_tokens", "revoke_token"}
       => inv[s].http[i].headers["Authorization"] # BearerOf(inv[s].tok0)

\* C21, amended: the request of test_tokens carries no Authorization header
\* and has the tokens under test as its body; the request of revoke_token
\* carries as its only header Authorization: Bearer T for the stored token
\* T, the token it asks the remote to revoke; neither has the headers
\* lichessRequest adds.
C21_OwnHeadersOnly ==
    \A s \in Active : \A i \in 1..Len(inv[s].http) :
       /\ inv[s].name = "test_tokens"
          => /\ inv[s].http[i].headers["Authorization"] = Undefined
             /\ inv[s].http[i].headers["Content-Type"] = Str(<<"text/plain">>)
             /\ inv[s].http[i].body = Str(ToString(Arg(inv[s].args, "tokens")))
       /\ inv[s].name = "revoke_token"
          => /\ inv[s].http[i].headers["Authorization"] = BearerOf(inv[s].tok0)
             /\ inv[s].http[i].headers["Content-Type"] = Undefined
             /\ Truthy(inv[s].tok0)

C21_Witness ==
    \E s \in Active :
       /\ inv[s].name = "revoke_token"
       /\ inv[s].tok0 = Str(<<"t", "2">>)
       /\ Len(inv[s].http) = 1
       /\ inv[s].http[1].method = Str(<<"DELETE">>)
       /\ inv[s].http[1].headers["Authorization"] = Str(<<"Bearer ", "t", "2">>)

\* C22: while an invocation is suspended at its HTTP call, no other
\* invocation starts or runs on: a step leaves every other slot as it is,
\* or only hands back a reply that was already made.
C22_OneInvocationInFlight ==
    [][ \A s, u \in Slots :
          (s # u /\ inv[s].pc = "awaiting")
          => (inv'[u] = inv[u] \/ inv'[u].pc = "idle") ]_vars

\* the invocation in s has ended in one result holding a single text item,
\* or in one error with a message
OneOutcome(s) ==
    \/ /\ inv[s].outcome.type = "result"
       /\ Len(inv[s].outcome.content) = 1
       /\ inv[s].outcome.content[1].type = "text"
    \/ /\ inv[s].outcome.type = "error"
       /\ inv[s].outcome.message # <<>>

\* C23: when every HTTP call returns or fails, every invocation ends, and it
\* ends in exactly one outcome: one result holding a single text item, or
\* one error with a message; until it ends it has no outcome.
C23_ExactlyOneOutcome ==
    /\ [](\A s \in Slots : inv[s].pc = "done" => OneOutcome(s))
    /\ [](\A s \in Slots : inv[s].pc = "awaiting" => inv[s].outcome = NoOutcome)
    /\ \A s \in Slots : (inv[s].pc = "awaiting") ~> (inv[s].pc = "done")

C23_Witness ==
    \E s \in Finished :
       /\ inv[s].name = "get_following"
       /\ inv[s].settled.kind = "rejected"
       /\ inv[s].http # <<>>
       /\ inv[s].outcome
             = Error("TransportError", <<"Failed to get following list: ", "fetch failed">>)

\* C24: when a revoke_token that was suspended at its DELETE succeeds and the
\* store no longer holds the token it revoked (a set_token completed in the
\* meantime), the store keeps the token it holds.
C24_RevokeKeepsNewerToken ==
    [][ \A s \in Slots :
          (/\ inv[s].pc = "awaiting"
           /\ inv[s].name = "revoke_token"
           /\ inv'[s].pc = "done"
           /\ inv'[s].outcome.type = "result"
           /\ LICHESS_TOKEN # inv[s].tok0)
          => LICHESS_TOKEN' = LICHESS_TOKEN ]_vars

\* C25: every request of an authenticated invocation carries the token the
\* store held when the request was built, that token was present, and no
\* step taken while the request is in flight (a set_token or a revoke_token
\* that completes, the fetch settling) changes the request.
C25_RequestKeepsItsToken ==
    /\ [](\A s \in Active :
            inv[s].name \in {"get_my_profile", "revoke_token"} =>
               \A i \in 1..Len(inv[s].http) :
                  /\ Truthy(inv[s].tok0)
                  /\ inv[s].http[i].headers["Authorization"] = BearerOf(inv[s].tok0))
    /\ [][ \A s \in Slots :
             (inv[s].pc = "awaiting" /\ inv'[s].pc # "idle")
             => inv'[s].http = inv[s].http ]_vars

C25_Witness ==
    \E s \in Finished :
       /\ inv[s].name = "get_my_profile"
       /\ inv[s].tok0 = Str(<<"t", "1">>)
       /\ Len(inv[s].http) = 1
       /\ inv[s].http[1].headers["Authorization"] = Str(<<"Bearer ", "t", "1">>)
       /\ inv[s].outcome.type = "result"
       /\ LICHESS_TOKEN = Str(<<"t", "2">>)

\* the invocation in s is a create_swiss with name and teamId and a clock object
SwissWithClock(s) ==
    /\ inv[s].name = "create_swiss"
    /\ Truthy(inv[s].args.name)
    /\ Truthy(inv[s].args.teamId)
    /\ inv[s].args.clock.t = "object"

NonNegative(x) == x.t = "number" /\ x.v >= 0

\* C26: a create_swiss with name and teamId whose clock lacks limit or
\* increment ends in a validation error without an HTTP request; one whose
\* clock has a non-negative limit and a non-negative increment does not
\* end in a validation error, and with a token stored it sends the clock.
C26_SwissClockCheck ==
    \A s \in Active :
       SwissWithClock(s) =>
          LET limit == inv[s].args.clock.v.limit
              increment == inv[s].args.clock.v.increment
          IN
          /\ (limit = Undefined \/ increment = Undefined)
                => /\ inv[s].pc = "done"
                   /\ FailedAs(s, "ValidationError")
                   /\ inv[s].http = <<>>
          /\ (NonNegative(limit) /\ NonNegative(increment))
                => /\ ~FailedAs(s, "ValidationError")
                   /\ Truthy(inv[s].tok0)
                        => /\ Len(inv[s].http) = 1
                           /\ inv[s].http[1].body.v.clock
                                 = [limit |-> limit, increment |-> increment]

\* the numeric fields of create_arena that have a default
ArenaDefaults == {"clockTime", "clockIncrement", "minutes", "waitMinutes"}

\* C27: a request never carries a default in the place of a number the
\* caller supplied: the supplied clockTime, clockIncrement, minutes and
\* waitMinutes of create_arena are those of the request body, and the
\* supplied days of get_puzzle_dashboard and nb of get_leaderboard are those
\* of the request path.
C27_DefaultOnlyWhenOmitted ==
    \A s \in Active : \A i \in 1..Len(inv[s].http) :
       /\ inv[s].name = "create_arena" =>
             \A k \in ArenaDefaults :
                Arg(inv[s].args, k) # Undefined
                   => inv[s].http[i].body.v[k] = Arg(inv[s].args, k)
       /\ (inv[s].name = "get_puzzle_dashboard" /\ inv[s].args.days # Absent) =>
             inv[s].http[i].url
                = LICHESS_API_URL \o <<"/puzzle/dashboard/">> \o ToString(inv[s].args.days)
       /\ (inv[s].name = "get_leaderboard" /\ inv[s].args.nb # Absent) =>
             inv[s].http[i].url
                = LICHESS_API_URL \o <<"/player/top/">> \o ToString(inv[s].args.nb)
                     \o <<"/">> \o ToString(inv[s].args.perfType)

\* the optional flags of export_games_by_ids
ExportFlags == {"moves", "pgnInJson", "tags", "clocks", "evals", "opening"}

\* C28: every request of export_games_by_ids with ids has the id list as its
\* text/plain body and, for every flag the caller supplied, the query
\* parameter flag=value.
C28_ExportFlagsForwarded ==
    \A s \in Active : \A i \in 1..Len(inv[s].http) :
       (inv[s].name = "export_games_by_ids" /\ inv[s].args.ids # Absent) =>
          /\ inv[s].http[i].body = inv[s].args.ids
          /\ inv[s].http[i].headers["Content-Type"] = Str(<<"text/plain">>)
          /\ \A k \in ExportFlags :
                Arg(inv[s].args, k) # Undefined
                   => HasParameter(QueryOf(inv[s].http[i].url), k,
                                   ToString(Arg(inv[s].args, k)))

\* C29: get_timeline with an nb outside 1..30 ends in a validation error
\* without an HTTP request, every request of get_timeline has an nb query
\* parameter between 1 and 30, and with nb omitted that parameter is 15.
C29_TimelineNbRange ==
    \A s \in Active :
       inv[s].name = "get_timeline" =>
          /\ (inv[s].args.nb # Absent /\ inv[s].args.nb.v \notin 1..30)
                => /\ inv[s].pc = "done"
                   /\ FailedAs(s, "ValidationError")
                   /\ inv[s].http = <<>>
          /\ \A i \in 1..Len(inv[s].http) :
                /\ \E n \in 1..30 :
                      HasParameter(QueryOf(inv[s].http[i].url), "nb", Decimal(n))
                /\ inv[s].args.nb = Absent
                      => HasParameter(QueryOf(inv[s].http[i].url), "nb", Decimal(15))

\* C30: when a call of a tool that needs the token would end in a validation
\* error with a token stored, the same call made while no token is stored
\* ends in that validation error, not in the missing-credential error, and
\* issues no HTTP request.
C30_ValidationBeforeCredential ==
    \A s \in Active :
       (Authenticated(inv[s].name) /\ ~Truthy(inv[s].tok0)) =>
          LET withToken == Handler(inv[s].name, Str(<<"t", "1">>), inv[s].args, Pending) IN
          (withToken.outcome.type = "error" /\ withToken.outcome.kind = "ValidationError")
             => /\ inv[s].pc = "done"
                /\ inv[s].outcome = withToken.outcome
                /\ inv[s].http = <<>>

C30_Witness ==
    \E s \in Finished :
       /\ inv[s].name = "get_leaderboard"
       /\ inv[s].tok0 = Undefined
       /\ inv[s].args.perfType = Str(<<"blitz">>)
       /\ inv[s].args.nb = Num(201)
       /\ FailedAs(s, "ValidationError")
       /\ inv[s].http = <<>>

====
